---- MODULE Spec2Model ----
(***************************************************************************)
(* Model of the universal-solver client (package solver): the swap         *)
(* pipeline ExecuteSwap (quote, swap mutation, prepare, sign, submit), the *)
(* exported stage methods called on their own, the NFT transfer workflow   *)
(* ExecuteTransferMutation, and the WebSocket notification hub             *)
(* (handleBroadcasts / HandleWebSocket).                                   *)
(*                                                                         *)
(* Conventions.  A Go nil pointer is a record whose field set is FALSE.    *)
(* A Go error is a string, "" meaning nil.  Every stage is an operator     *)
(* that takes the state it reads and the answer of the external service it *)
(* calls, and yields [err, swap, calls]: the error, the SwapResponse after *)
(* the call and the set of external calls it made.                         *)
(***************************************************************************)
EXTENDS Integers, Sequences, FiniteSets, TLC

VARIABLES
    chainKeys,   \* package variable chainKeys (nil until InitKeys)
    ethNonce,    \* Ethereum node: next nonce of the pool account
    swapPc,      \* per ExecuteSwap request: the stage it is about to run
    swapReq,     \* per request: the arguments toToken, destinationAddress
    swapQuote,   \* per request: swapResult returned by CalculateSwap
    swapSt,      \* per request: the SwapResponse (created after the mutation)
    swapLog,     \* per request: the stages run so far, with their outcome
    swapCalls,   \* per request: the external calls made so far
    swapRet,     \* per request: what ExecuteSwap returned
    dSwap,       \* the SwapResponse a caller drives through the stage methods
    dLast,       \* the last stage method called on dSwap and what it did
    clients,     \* Client.clients: the registered connections
    conn,        \* per connection: "none" (not yet dialled), "open", "closed"
    stalled,     \* per connection: the peer does not read, a write blocks
    handler,     \* per connection: where its HandleWebSocket goroutine is
    inbox,       \* per connection: the messages written to it, in order
    inbound,     \* per connection: the types of the messages read from it
    hubPc,       \* handleBroadcasts: "recv" on the channel, or "iter"
    hubMsg,      \* handleBroadcasts: the event being broadcast
    hubTodo,     \* handleBroadcasts: registry entries the range has yet to visit
    hubSnap,     \* the registry when the range began
    hubFailed,   \* the connections whose write failed in this broadcast
    hubCur,      \* the connection whose WriteJSON the loop is blocked in, or ""
    hubLog,      \* the events handleBroadcasts has received, in order
    pruned,      \* the connections handleBroadcasts has deleted from the registry
    raced,       \* the connections with two WriteJSON calls in progress at once
    trPc,        \* per transfer request: the step it is about to run
    trParams,    \* per transfer request: its TransferParams
    trNft,       \* per transfer request: the NFT details fetched
    trSale,      \* per transfer request: the executeSale transaction sent
    trHash,      \* per transfer request: the local variable hash
    trEvents,    \* per transfer request: the events handed to the hub
    trCalls,     \* per transfer request: the external calls made, in order
    trLog,       \* per transfer request: the steps run, with answer and error
    trRecorded,  \* per transfer request: the NFT backend recorded the transfer
    trRet,       \* per transfer request: what ExecuteTransferMutation returned
    lkAnswers,   \* GetSolanaTransaction: the answers to its requests so far
    lkRet,       \* GetSolanaTransaction: what it returned
    lkPauses,    \* GetSolanaTransaction: per attempt, whether a Sleep followed
    lsPc,        \* ListNftForSale: the step it is about to run
    lsTx,        \* ListNftForSale: the hash ListToken returned
    lsRet,       \* ListNftForSale: what it returned
    lsArgs,      \* ListNftForSale: its arguments
    lsEvents,    \* ListNftForSale: the events handed to the hub
    hxPc,        \* handlePostTxHash: the step the request is about to run
    hxReq,       \* handlePostTxHash: the query parameters of the request
    hxTx,        \* handlePostTxHash: the transaction the lookup returned
    hxQuote,     \* handlePostTxHash: swapResult
    hxLog,       \* handlePostTxHash: the steps run so far, with their outcome
    hxStatus,    \* handlePostTxHash: the HTTP status written, 0 if none
    hxDone,      \* handlePostTxHash: the requests answered before this one
    beLast,      \* the last backend operation called, its answer and result
    poolLast     \* the last GetPool call, the registry and its result

swapVars == <<swapPc, swapReq, swapQuote, swapSt, swapLog, swapCalls, swapRet>>
directVars == <<dSwap, dLast>>
nodeVars == <<chainKeys, ethNonce>>
connVars == <<clients, conn, stalled, handler, inbox, inbound>>
loopVars == <<hubPc, hubMsg, hubTodo, hubSnap, hubFailed, hubCur, hubLog, pruned>>
writeVars == <<raced>>
hubVars == <<connVars, loopVars, writeVars>>
transferVars ==
    <<trPc, trParams, trNft, trSale, trHash, trEvents, trCalls, trLog, trRecorded, trRet>>

postVars == <<hxPc, hxReq, hxTx, hxQuote, hxLog, hxStatus, hxDone>>
callVars ==
    <<lkAnswers, lkRet, lkPauses, lsPc, lsTx, lsRet, lsArgs, lsEvents, beLast, poolLast,
      postVars>>

(***************************************************************************)
(* Bounds                                                                  *)
(***************************************************************************)
Requests == {"r1", "r2"}
MaxNonce == 1
Tokens == {"ETH", "SOL", "BTC"}
DestinationAddresses == {"0xDest", "SoDest"}
\* a float64 amount is counted in units of 10^-7 (1.5 is 15000000)
QuoteAmounts == {4, 15000000}
\* the arguments and backend data of each concurrent request: the first
\* ranges over everything, the second is a competitor on either chain
TokensOf(r) == IF r = "r1" THEN Tokens ELSE {"ETH", "SOL"}
DestinationsOf(r) == IF r = "r1" THEN DestinationAddresses ELSE {"SoDest"}
QuoteAmountsOf(r) == IF r = "r1" THEN QuoteAmounts ELSE {15000000}
MutationDataOf(r) == IF r = "r1" THEN {"", "lineraTx"} ELSE {"lineraTx"}
\* the connections that may be dialled, the one whose peer may stop
\* reading, the one whose peer sends messages, and how many it sends
Conns == {"c1", "c2", "c3"}
StallingConns == {"c1"}
SendingConns == {"c2"}
ClosingConns == {"c2"}
MaxInbound == 2
InboundTypes == {"ping", "nft_transfer_completed"}
Producers == {"t2"}
HandlerConns == {"c2", "c3"}
Subscribers == {"c3"}
\* the transfer requests; a decimal string is the count of its micro-units
\* (1.5 is 1500000), and -1 stands for a string that is no number
Transfers == {"t1", "t2"}
TransferTokensOf(t) == IF t = "t1" THEN {"ETH", "SOL"} ELSE {"SOL"}
TransferAmountsOf(t) == IF t = "t1" THEN {1000000, 1500000} ELSE {1500000}
NftPricesOf(t) == IF t = "t1" THEN {1000000, 1500000} ELSE {1000000}
DetailsFailuresOf(t) == IF t = "t1" THEN {"transport", "decode", "errors"} ELSE {}
TransferFailuresOf(t) == IF t = "t1" THEN {"transport", "decode", "errors"} ELSE {"errors"}

(***************************************************************************)
(* Data model (types.go)                                                   *)
(***************************************************************************)
NilTx ==
    [set |-> FALSE, Chain |-> "", RawTx |-> <<>>, FromAddress |-> "",
     ToAddress |-> "", Amount |-> 0, GasLimit |-> 0, Nonce |-> 0,
     Lamports |-> 0]

TransactionPrep(chain, from, to, amount, gasLimit, nonce, lamports) ==
    [set |-> TRUE, Chain |-> chain, RawTx |-> <<>>, FromAddress |-> from,
     ToAddress |-> to, Amount |-> amount, GasLimit |-> gasLimit,
     Nonce |-> nonce, Lamports |-> lamports]

NilSwap ==
    [set |-> FALSE, TxHash |-> "", ToToken |-> "", ToAmount |-> 0,
     Status |-> "", TxToSign |-> NilTx, DestinationAddress |-> ""]

SwapResponse(txHash, quote, dest) ==
    [set |-> TRUE, TxHash |-> txHash, ToToken |-> quote.ToToken,
     ToAmount |-> quote.ToAmount, Status |-> "pending", TxToSign |-> NilTx,
     DestinationAddress |-> dest]

NilQuote == [ToToken |-> "", ToAmount |-> 0]

Pool(chainName, poolAddress) ==
    [ChainName |-> chainName, PoolAddress |-> poolAddress]

NilKeys == [set |-> FALSE, EthereumKey |-> FALSE, SolanaKey |-> ""]

\* what keys.DeriveKeysFromSeedPhrase can yield: an Ethereum key and a
\* Solana key whose public key is, or is not, the Solana pool address
DerivedKeys ==
    { [set |-> TRUE, EthereumKey |-> TRUE, SolanaKey |-> pk] :
        pk \in {"SoPool", "SoOther"} }

\* Standard ETH transfer gas limit
GasLimit == 21000

(***************************************************************************)
(* Answers of the external services                                        *)
(***************************************************************************)
\* GraphQL backend: transport failure, undecodable body, errors array, data
BackendFailures == {"transport", "decode", "errors"}

QuoteAnswers(toToken, amounts) ==
    [kind : BackendFailures, ToToken : {toToken}, ToAmount : {0}]
    \cup [kind : {"data"}, ToToken : {toToken}, ToAmount : amounts]

MutationAnswers(data) ==
    [kind : BackendFailures, data : {""}]
    \cup [kind : {"data"}, data : data]

\* registries the backend may hold: none, keyed by chain name, keyed by token
Registries ==
    { <<>>,
      <<Pool("ethereum", "0xPool"), Pool("solana", "SoPool")>>,
      <<Pool("ETH", "0xPool"), Pool("SOL", "SoPool")>> }

PoolsAnswers ==
    [kind : BackendFailures, pools : {<<>>}]
    \cup [kind : {"data"}, pools : Registries]

\* registries for GetPool: up to two pools, also two of one chain name
PoolEntries ==
    {Pool("ethereum", "0xPool"), Pool("solana", "SoPool"), Pool("ethereum", "0xOther")}

PoolRegistries ==
    {<<>>} \cup {<<p>> : p \in PoolEntries} \cup {<<p, q>> : p, q \in PoolEntries}

GetPoolAnswers ==
    [kind : BackendFailures, pools : {<<>>}]
    \cup [kind : {"data"}, pools : PoolRegistries]

PoolNames == {"ethereum", "solana", "bitcoin", "0xPool"}

\* Ethereum node while preparing: dial, SuggestGasPrice, PendingNonceAt
EthPrepareAnswers == {"dialErr", "gasErr", "nonceErr", "ok"}
\* Solana node while preparing: GetLatestBlockhash
SolPrepareAnswers == {"err", "ok"}
\* Ethereum node on submission: dial, SendTransaction
EthSubmitAnswers == {"dialErr", "rejected", "accepted"}
\* Solana node on sendTransaction: transport failure, an error member, a
\* result that is no string, the signature
SolSubmitAnswers == {"transport", "rpcError", "badResult", "signature"}

(***************************************************************************)
(* Numbers.  A decimal string with six fractional digits ("%f") is the     *)
(* count of its micro-units.  A float64 that was parsed from a decimal is   *)
(* named by that decimal, in units of 10^-7: parsing is monotonic, so       *)
(* comparisons are those of the decimals; its binary value matters where   *)
(* it is multiplied.  A big.Int is the sequence of its bits, lowest first   *)
(* and without leading zeros, so that the 10^18 scaling does not leave the *)
(* integers TLC has.                                                        *)
(***************************************************************************)
Zeros(k) == [i \in 1..k |-> 0]

RECURSIVE BitsOf(_)
BitsOf(n) == IF n = 0 THEN <<>> ELSE <<n % 2>> \o BitsOf(n \div 2)

RECURSIVE BitsValue(_)
BitsValue(a) == IF a = <<>> THEN 0 ELSE Head(a) + 2 * BitsValue(Tail(a))

\* a * 2^n
ShiftLeft(a, n) == IF a = <<>> THEN a ELSE Zeros(n) \o a

\* floor(a / 2^n)
ShiftRight(a, n) == IF n >= Len(a) THEN <<>> ELSE SubSeq(a, n + 1, Len(a))

\* a without its leading zero bits
Strip(a) ==
    LET ones == {i \in 1..Len(a) : a[i] = 1}
    IN  IF ones = {} THEN <<>>
        ELSE SubSeq(a, 1, CHOOSE i \in ones : \A j \in ones : j <= i)

\* a + 1
Increment(a) ==
    LET zeros == {i \in 1..Len(a) : a[i] = 0} \cup {Len(a) + 1}
        z == CHOOSE i \in zeros : \A j \in zeros : i <= j
    IN  [i \in 1..(IF z > Len(a) THEN z ELSE Len(a)) |->
            IF i < z THEN 0 ELSE IF i = z THEN 1 ELSE a[i]]

\* the words of a big.Int, here of 15 bits, lowest first
WordsOf(a) ==
    [w \in 1..((Len(a) + 14) \div 15) |->
        BitsValue(SubSeq(a, 15 * w - 14, IF 15 * w < Len(a) THEN 15 * w ELSE Len(a)))]

BitsOfWords(l) ==
    Strip([i \in 1..(15 * Len(l)) |-> (l[(i - 1) \div 15 + 1] \div 2^((i - 1) % 15)) % 2])

RECURSIVE TimesWord(_, _, _)
\* l * k + carry, for k < 2^15
TimesWord(l, k, carry) ==
    IF l = <<>> THEN (IF carry = 0 THEN <<>> ELSE <<carry>>)
    ELSE <<(Head(l) * k + carry) % 32768>>
            \o TimesWord(Tail(l), k, (Head(l) * k + carry) \div 32768)

RECURSIVE WordsTimesPow5(_, _)
WordsTimesPow5(l, n) ==
    IF n > 6 THEN WordsTimesPow5(TimesWord(l, 5^6, 0), n - 6) ELSE TimesWord(l, 5^n, 0)

\* a * 5^n
TimesPow5(a, n) == BitsOfWords(WordsTimesPow5(WordsOf(a), n))

\* a * 10^n
TimesPow10(a, n) == ShiftLeft(TimesPow5(a, n), n)

\* the mantissa of a float64 and of a big.Float made by SetFloat64
Precision == 53

\* a, of which lower bits were cut off that were not all 0 if sticky,
\* rounded to nearest even at Precision bits: the value is m * 2^e
RoundBits(a, sticky) ==
    IF Len(a) <= Precision THEN [m |-> a, e |-> 0]
    ELSE LET d == Len(a) - Precision
             top == SubSeq(a, d + 1, Len(a))
             low == sticky \/ \E i \in 1..(d - 1) : a[i] = 1
             up == a[d] = 1 /\ (low \/ top[1] = 1)
         IN  [m |-> IF up THEN Increment(top) ELSE top, e |-> d]

RECURSIVE FractionDigits(_, _, _)
\* the first n digits of r / unit after the point in base 2^7, and then
\* one more element: 1 if digits other than 0 follow, else 0
FractionDigits(r, unit, n) ==
    IF n = 0 THEN <<IF r = 0 THEN 0 ELSE 1>>
    ELSE <<(128 * r) \div unit>> \o FractionDigits((128 * r) % unit, unit, n - 1)

\* strconv.ParseFloat: the float64 nearest to x / unit, m * 2^e, for
\* 2^-24 < x / unit: 84 bits after the point hold 54 significant ones
NearestFloat64(x, unit) ==
    LET whole == BitsOf(x \div unit)
        frac == FractionDigits(x % unit, unit, 12)
        fracBits == [i \in 1..84 |-> (frac[(84 - i) \div 7 + 1] \div 2^((i - 1) % 7)) % 2]
        cut == RoundBits(Strip(fracBits \o whole), frac[13] = 1)
    IN  [m |-> cut.m, e |-> cut.e - 84]

\* big.Float product of f and 1e18 at Precision bits, then Int(): the
\* integer part
Float64ToWei(f) ==
    LET product == RoundBits(TimesPow5(f.m, 18), FALSE)
        shift == product.e + f.e + 18
    IN  IF shift >= 0 THEN ShiftLeft(product.m, shift)
        ELSE ShiftRight(product.m, 0 - shift)

\* the float64 values the bounds lead to, converted once
WeiTable ==
    [x \in {1, 350, 10000000, 15000000, 41000000} |-> Float64ToWei(NearestFloat64(x, 10000000))]

\* fmt.Sprintf("%f", x): x rounded to six fractional digits
FormatFloat(x) == (x + 5) \div 10

\* strconv.ParseFloat of a six-digit decimal string, as a float64
ParseFloat(s) == s * 10

\* big.Float(x) * 1e18 truncated to a big.Int: x names a float64 by its
\* decimal in units of 10^-7
ToWei(x) ==
    IF x = 0 THEN <<>>
    ELSE IF x \in DOMAIN WeiTable THEN WeiTable[x]
    ELSE Float64ToWei(NearestFloat64(x, 10000000))

\* uint64(x) of a float64 x
Truncate(x) == x \div 10000000

(***************************************************************************)
(* External calls, by name                                                 *)
(***************************************************************************)
BackendCalls == {"backend.calculateSwap", "backend.swap", "backend.getAllPools"}
ChainCalls ==
    {"eth.dial", "eth.suggestGasPrice", "eth.pendingNonceAt",
     "eth.sendTransaction", "sol.getLatestBlockhash", "sol.sendTransaction"}
SendCalls == {"eth.sendTransaction", "sol.sendTransaction"}

Outcome(err, swap, calls) == [err |-> err, swap |-> swap, calls |-> calls]

(***************************************************************************)
(* CalculateSwap, determineChain, getPoolAddress                           *)
(***************************************************************************)
CalculateSwap(ans) ==
    CASE ans.kind = "transport" ->
           [err |-> "error executing request", result |-> NilQuote]
      [] ans.kind = "decode" ->
           [err |-> "error decoding response", result |-> NilQuote]
      [] ans.kind = "errors" ->
           [err |-> "GraphQL error", result |-> NilQuote]
      [] OTHER ->
           [err |-> "",
            result |-> [ToToken |-> ans.ToToken, ToAmount |-> ans.ToAmount]]

determineChain(token) ==
    CASE token = "ETH" -> "ethereum"
      [] token = "SOL" -> "solana"
      [] OTHER -> "unknown"

GetAllPools(ans) ==
    CASE ans.kind = "transport" -> [err |-> "error sending request", pools |-> <<>>]
      [] ans.kind = "decode" -> [err |-> "error parsing response", pools |-> <<>>]
      [] ans.kind = "errors" -> [err |-> "GraphQL error", pools |-> <<>>]
      [] OTHER -> [err |-> "", pools |-> ans.pools]

\* variant: the last pool whose ChainName equals token
getPoolAddressLastMatch(token, ans) ==
    LET got == GetAllPools(ans)
        hits == {i \in 1..Len(got.pools) : got.pools[i].ChainName = token}
    IN  IF got.err # "" THEN [err |-> "failed to get pools", addr |-> ""]
        ELSE IF hits = {} THEN [err |-> "pool not found for token", addr |-> ""]
        ELSE [err |-> "",
              addr |-> got.pools[CHOOSE i \in hits : \A j \in hits : i >= j].PoolAddress]

\* the first pool whose ChainName equals token
getPoolAddress(token, ans) ==
    LET got == GetAllPools(ans)
        hits == {i \in 1..Len(got.pools) : got.pools[i].ChainName = token}
    IN  IF got.err # "" THEN [err |-> "failed to get pools", addr |-> ""]
        ELSE IF hits = {} THEN [err |-> "pool not found for token", addr |-> ""]
        ELSE [err |-> "",
              addr |-> got.pools[CHOOSE i \in hits : \A j \in hits : i <= j].PoolAddress]

(***************************************************************************)
(* PrepareTransaction                                                      *)
(***************************************************************************)
prepareEthereumTransaction(swap, pools, node, nonce) ==
    LET from == getPoolAddress(swap.ToToken, pools) IN
    IF from.err # "" THEN
        Outcome("failed to get source pool address", swap, {"backend.getAllPools"})
    ELSE IF node = "dialErr" THEN
        Outcome("failed to connect to Ethereum node", swap,
                {"backend.getAllPools", "eth.dial"})
    ELSE IF node = "gasErr" THEN
        Outcome("failed to get gas price", swap,
                {"backend.getAllPools", "eth.dial", "eth.suggestGasPrice"})
    ELSE IF node = "nonceErr" THEN
        Outcome("failed to get nonce", swap,
                {"backend.getAllPools", "eth.dial", "eth.suggestGasPrice",
                 "eth.pendingNonceAt"})
    ELSE
        Outcome("",
                [swap EXCEPT !.TxToSign =
                    TransactionPrep("ethereum", from.addr, swap.DestinationAddress,
                                    FormatFloat(swap.ToAmount), GasLimit, nonce, 0)],
                {"backend.getAllPools", "eth.dial", "eth.suggestGasPrice",
                 "eth.pendingNonceAt"})

prepareSolanaTransaction(swap, pools, node) ==
    LET from == getPoolAddress(swap.ToToken, pools) IN
    IF from.err # "" THEN
        Outcome("failed to get source pool address", swap, {"backend.getAllPools"})
    ELSE IF node = "err" THEN
        Outcome("failed to get recent blockhash", swap,
                {"backend.getAllPools", "sol.getLatestBlockhash"})
    ELSE
        Outcome("",
                [swap EXCEPT !.TxToSign =
                    TransactionPrep("solana", from.addr, swap.DestinationAddress,
                                    FormatFloat(swap.ToAmount), 0, 0, swap.ToAmount)],
                {"backend.getAllPools", "sol.getLatestBlockhash"})

\* a plausible slip: a chain kind that is not solana is taken for ethereum
PrepareTransactionDefaultsToEthereum(chain, swap, pools, ethNode, solNode, nonce) ==
    CASE chain = "solana" -> prepareSolanaTransaction(swap, pools, solNode)
      [] OTHER -> prepareEthereumTransaction(swap, pools, ethNode, nonce)

PrepareTransaction(chain, swap, pools, ethNode, solNode, nonce) ==
    CASE chain = "ethereum" -> prepareEthereumTransaction(swap, pools, ethNode, nonce)
      [] chain = "solana" -> prepareSolanaTransaction(swap, pools, solNode)
      [] OTHER -> Outcome("unsupported chain", swap, {})

(***************************************************************************)
(* SignTransaction.  A raw transaction is <<>> while empty; signed, it is  *)
(* the tuple of its encoding and of what was signed.                       *)
(***************************************************************************)
\* a plausible slip: the key is used without the test that it is there
signEthereumTransactionNoKeyCheck(swap, keys) ==
    LET tx == swap.TxToSign
        raw == <<"0x", "signed", tx.Nonce, tx.ToAddress,
                 ToWei(ParseFloat(tx.Amount)), tx.GasLimit>>
    IN  Outcome("", [swap EXCEPT !.TxToSign.RawTx = raw], {})

signEthereumTransaction(swap, keys) ==
    IF ~keys.set \/ ~keys.EthereumKey THEN
        Outcome("ethereum private key not initialized", swap, {})
    ELSE
        LET tx == swap.TxToSign
            raw == <<"0x", "signed", tx.Nonce, tx.ToAddress,
                     ToWei(ParseFloat(tx.Amount)), tx.GasLimit>>
        IN  Outcome("", [swap EXCEPT !.TxToSign.RawTx = raw], {})

\* solana.PublicKeyFromBase58 accepts these
Base58Keys == {"SoPool", "SoDest", "SoOther"}

\* tx.Sign finds the key of the one required signer (the source address) only
\* by public-key equality, and its outcome is dropped; whether MarshalBinary
\* then encodes a transaction left without signature is the library's
\* choice (lib)
signSolanaTransaction(swap, keys, lib) ==
    LET tx == swap.TxToSign IN
    IF ~keys.set \/ keys.SolanaKey = "" THEN
        Outcome("solana private key not initialized", swap, {})
    ELSE IF tx.FromAddress \notin Base58Keys THEN
        Outcome("failed to get from address", swap, {})
    ELSE IF tx.ToAddress \notin Base58Keys THEN
        Outcome("failed to get to address", swap, {})
    ELSE IF keys.SolanaKey = tx.FromAddress THEN
        Outcome("",
                [swap EXCEPT !.TxToSign.RawTx =
                    <<"base58", "signed", tx.FromAddress, tx.ToAddress,
                      Truncate(tx.Lamports)>>],
                {})
    ELSE IF lib = "rejectsUnsigned" THEN
        Outcome("failed to serialize signed transaction", swap, {})
    ELSE
        Outcome("",
                [swap EXCEPT !.TxToSign.RawTx =
                    <<"base58", "unsigned", tx.FromAddress, tx.ToAddress,
                      Truncate(tx.Lamports)>>],
                {})

MarshalChoices == {"rejectsUnsigned", "encodesUnsigned"}

SignTransaction(swap, keys, lib) ==
    IF ~swap.TxToSign.set THEN
        Outcome("no transaction prepared for signing", swap, {})
    ELSE CASE swap.TxToSign.Chain = "ethereum" -> signEthereumTransaction(swap, keys)
           [] swap.TxToSign.Chain = "solana" -> signSolanaTransaction(swap, keys, lib)
           [] OTHER -> Outcome("unsupported chain for signing", swap, {})

(***************************************************************************)
(* SubmitTransaction                                                       *)
(***************************************************************************)
\* hexutil.Decode accepts a non-empty 0x string
HexDecodes(raw) == raw # <<>> /\ raw[1] = "0x"

\* a plausible slip: the status is set before the node has answered
submitEthereumTransactionEarlyStatus(swap, node) ==
    IF node = "dialErr" THEN
        Outcome("failed to connect to Ethereum node", swap, {"eth.dial"})
    ELSE IF ~HexDecodes(swap.TxToSign.RawTx) THEN
        Outcome("failed to decode raw transaction", swap, {"eth.dial"})
    ELSE IF node = "rejected" THEN
        Outcome("failed to submit transaction", [swap EXCEPT !.Status = "submitted"],
                {"eth.dial", "eth.sendTransaction"})
    ELSE
        Outcome("", [swap EXCEPT !.TxHash = "0xTxHash", !.Status = "submitted"],
                {"eth.dial", "eth.sendTransaction"})

submitEthereumTransaction(swap, node) ==
    IF node = "dialErr" THEN
        Outcome("failed to connect to Ethereum node", swap, {"eth.dial"})
    ELSE IF ~HexDecodes(swap.TxToSign.RawTx) THEN
        Outcome("failed to decode raw transaction", swap, {"eth.dial"})
    ELSE IF node = "rejected" THEN
        Outcome("failed to submit transaction", swap,
                {"eth.dial", "eth.sendTransaction"})
    ELSE
        Outcome("", [swap EXCEPT !.TxHash = "0xTxHash", !.Status = "submitted"],
                {"eth.dial", "eth.sendTransaction"})

\* a plausible slip: the signature the node returned is not stored
submitSolanaTransactionKeepsHash(swap, node) ==
    CASE node = "transport" ->
           Outcome("failed to submit transaction", swap, {"sol.sendTransaction"})
      [] node = "rpcError" ->
           Outcome("RPC error", swap, {"sol.sendTransaction"})
      [] node = "badResult" ->
           Outcome("invalid signature format in response", swap,
                   {"sol.sendTransaction"})
      [] OTHER ->
           Outcome("", [swap EXCEPT !.Status = "submitted"], {"sol.sendTransaction"})

submitSolanaTransaction(swap, node) ==
    CASE node = "transport" ->
           Outcome("failed to submit transaction", swap, {"sol.sendTransaction"})
      [] node = "rpcError" ->
           Outcome("RPC error", swap, {"sol.sendTransaction"})
      [] node = "badResult" ->
           Outcome("invalid signature format in response", swap,
                   {"sol.sendTransaction"})
      [] OTHER ->
           Outcome("", [swap EXCEPT !.TxHash = "SoSignature", !.Status = "submitted"],
                   {"sol.sendTransaction"})

\* a plausible slip: only the nil check, not the check of the raw bytes
SubmitTransactionNoRawCheck(swap, ethNode, solNode) ==
    IF ~swap.TxToSign.set THEN
        Outcome("no signed transaction available", swap, {})
    ELSE CASE swap.TxToSign.Chain = "ethereum" -> submitEthereumTransaction(swap, ethNode)
           [] swap.TxToSign.Chain = "solana" -> submitSolanaTransaction(swap, solNode)
           [] OTHER -> Outcome("unsupported chain for submission", swap, {})

SubmitTransaction(swap, ethNode, solNode) ==
    IF ~swap.TxToSign.set \/ swap.TxToSign.RawTx = <<>> THEN
        Outcome("no signed transaction available", swap, {})
    ELSE CASE swap.TxToSign.Chain = "ethereum" -> submitEthereumTransaction(swap, ethNode)
           [] swap.TxToSign.Chain = "solana" -> submitSolanaTransaction(swap, solNode)
           [] OTHER -> Outcome("unsupported chain for submission", swap, {})

\* what the nodes can answer to this submission: the Ethereum node accepts a
\* transaction only at the account's next nonce, the Solana node only a
\* transaction that carries its signature
NodeCanAnswer(swap, ethNode, solNode, nonce) ==
    LET raw == swap.TxToSign.RawTx IN
    /\ ethNode = "accepted" =>
         (swap.TxToSign.set /\ raw # <<>> /\ raw[1] = "0x" => raw[3] = nonce)
    /\ solNode = "signature" =>
         (swap.TxToSign.set /\ raw # <<>> /\ raw[1] = "base58" => raw[2] = "signed")

\* the node's next nonce after the submission
NonceAfter(res, nonce) ==
    IF res.err = "" /\ res.swap.TxToSign.Chain = "ethereum" THEN nonce + 1 ELSE nonce

(***************************************************************************)
(* InitKeys: chainKeys is assigned whatever the derivation returns          *)
(***************************************************************************)
InitKeys ==
    /\ ~chainKeys.set
    /\ \E k \in DerivedKeys : chainKeys' = k
    /\ UNCHANGED <<ethNonce, swapVars, directVars, hubVars, transferVars, callVars>>

(***************************************************************************)
(* ExecuteSwap, one action per stage.  swapPc[r] is the stage the request  *)
(* is about to run; "done" once ExecuteSwap has returned.                  *)
(***************************************************************************)
StageOrder == <<"quote", "swap", "prepare", "sign", "submit">>

StageIndex(stage) == CHOOSE i \in 1..Len(StageOrder) : StageOrder[i] = stage

\* a plausible slip: signing is left out of the sequence
AfterStageSkipsSign(stage, err) ==
    IF err # "" \/ stage = "submit" THEN "done"
    ELSE IF stage = "prepare" THEN "submit"
    ELSE StageOrder[StageIndex(stage) + 1]

\* a plausible slip: the error of SignTransaction is not checked
AfterStageIgnoresSignError(stage, err) ==
    IF (err # "" /\ stage # "sign") \/ stage = "submit" THEN "done"
    ELSE StageOrder[StageIndex(stage) + 1]

\* control flow of ExecuteSwap after a stage returned err
AfterStage(stage, err) ==
    IF err # "" \/ stage = "submit" THEN "done"
    ELSE StageOrder[StageIndex(stage) + 1]

\* the error ExecuteSwap returns for the error err of a stage
Wrap(stage, err) ==
    CASE stage = "quote" -> "failed to calculate swap"
      [] stage = "swap" -> err
      [] stage = "prepare" -> "failed to prepare transaction"
      [] stage = "sign" -> "failed to sign transaction"
      [] OTHER -> "failed to submit transaction"

\* what ExecuteSwap returns once stage has returned err with state st
Returned(stage, err, st) ==
    IF err # "" THEN [returned |-> TRUE, err |-> Wrap(stage, err), swap |-> NilSwap]
    ELSE IF stage = "submit" THEN [returned |-> TRUE, err |-> "", swap |-> st]
    ELSE [returned |-> FALSE, err |-> "", swap |-> NilSwap]

\* bookkeeping common to the stages
Ran(r, stage, err, st, calls) ==
    /\ swapPc' = [swapPc EXCEPT ![r] = AfterStage(stage, err)]
    /\ swapSt' = [swapSt EXCEPT ![r] = st]
    /\ swapLog' = [swapLog EXCEPT ![r] = Append(@, [stage |-> stage, ok |-> err = ""])]
    /\ swapCalls' = [swapCalls EXCEPT ![r] = @ \cup calls]
    /\ swapRet' = [swapRet EXCEPT ![r] = Returned(stage, err, st)]

ExecuteSwapQuote(r) ==
    /\ swapPc[r] = "quote"
    /\ \E toToken \in TokensOf(r), dest \in DestinationsOf(r) :
         \E ans \in QuoteAnswers(toToken, QuoteAmountsOf(r)) :
            LET res == CalculateSwap(ans) IN
            /\ swapReq' = [swapReq EXCEPT ![r] = [toToken |-> toToken, dest |-> dest]]
            /\ swapQuote' = [swapQuote EXCEPT ![r] = res.result]
            /\ Ran(r, "quote", res.err, swapSt[r], {"backend.calculateSwap"})
    /\ UNCHANGED <<nodeVars, directVars, hubVars, transferVars, callVars>>

\* the swap mutation and the construction of swapResponse
SwapMutation(req, quote, ans) ==
    CASE ans.kind = "transport" -> Outcome("error sending request", NilSwap, {"backend.swap"})
      [] ans.kind = "decode" -> Outcome("error parsing raw response", NilSwap, {"backend.swap"})
      [] ans.kind = "errors" -> Outcome("GraphQL error", NilSwap, {"backend.swap"})
      [] OTHER -> Outcome("", SwapResponse(ans.data, quote, req.dest), {"backend.swap"})

ExecuteSwapMutation(r) ==
    /\ swapPc[r] = "swap"
    /\ \E ans \in MutationAnswers(MutationDataOf(r)) :
         LET res == SwapMutation(swapReq[r], swapQuote[r], ans) IN
         Ran(r, "swap", res.err, res.swap, res.calls)
    /\ UNCHANGED <<swapReq, swapQuote, nodeVars, directVars, hubVars, transferVars, callVars>>

ExecuteSwapPrepare(r) ==
    /\ swapPc[r] = "prepare"
    /\ \E pools \in PoolsAnswers, ethNode \in EthPrepareAnswers,
          solNode \in SolPrepareAnswers :
         LET res == PrepareTransaction(determineChain(swapReq[r].toToken), swapSt[r],
                                       pools, ethNode, solNode, ethNonce)
         IN  Ran(r, "prepare", res.err, res.swap, res.calls)
    /\ UNCHANGED <<swapReq, swapQuote, nodeVars, directVars, hubVars, transferVars, callVars>>

ExecuteSwapSign(r) ==
    /\ swapPc[r] = "sign"
    /\ \E lib \in MarshalChoices :
         LET res == SignTransaction(swapSt[r], chainKeys, lib) IN
         Ran(r, "sign", res.err, res.swap, res.calls)
    /\ UNCHANGED <<swapReq, swapQuote, nodeVars, directVars, hubVars, transferVars, callVars>>

ExecuteSwapSubmit(r) ==
    /\ swapPc[r] = "submit"
    /\ \E ethNode \in EthSubmitAnswers, solNode \in SolSubmitAnswers :
         LET res == SubmitTransaction(swapSt[r], ethNode, solNode) IN
         /\ NodeCanAnswer(swapSt[r], ethNode, solNode, ethNonce)
         /\ ethNonce' = NonceAfter(res, ethNonce)
         /\ Ran(r, "submit", res.err, res.swap, res.calls)
    /\ UNCHANGED <<swapReq, swapQuote, chainKeys, directVars, hubVars, transferVars, callVars>>

(***************************************************************************)
(* The exported stage methods called on their own, in any order, on one    *)
(* SwapResponse                                                            *)
(***************************************************************************)
Chains == {"ethereum", "solana", "unknown", "Ethereum"}

\* the amounts a caller puts in a SwapResult, in units of 10^-7
DirectAmounts == QuoteAmounts \cup {41000000}

NoRegistry == [kind |-> "", pools |-> <<>>]

NoCall ==
    [op |-> "", arg |-> "", reg |-> NoRegistry, err |-> "", before |-> NilSwap,
     calls |-> {}]

\* op was called with arg (its chain kind, if it takes one) on before, while
\* the backend answers getAllPools with reg
Called(op, arg, reg, before, res) ==
    /\ dSwap' = res.swap
    /\ dLast' = [op |-> op, arg |-> arg, reg |-> reg, err |-> res.err,
                 before |-> before, calls |-> res.calls]

\* the caller builds a SwapResponse as ExecuteSwap does
NewSwapResponse ==
    /\ \E t \in {"ETH", "SOL"}, a \in DirectAmounts, d \in DestinationAddresses :
         dSwap' = SwapResponse("", [ToToken |-> t, ToAmount |-> a], d)
    /\ dLast' = NoCall
    /\ UNCHANGED <<nodeVars, swapVars, hubVars, transferVars, callVars>>

CallPrepareTransaction ==
    /\ dSwap.set
    /\ \E chain \in Chains, pools \in PoolsAnswers, ethNode \in EthPrepareAnswers,
          solNode \in SolPrepareAnswers :
         Called("PrepareTransaction", chain, pools, dSwap,
                PrepareTransaction(chain, dSwap, pools, ethNode, solNode, ethNonce))
    /\ UNCHANGED <<nodeVars, swapVars, hubVars, transferVars, callVars>>

CallSignTransaction ==
    /\ dSwap.set
    /\ \E lib \in MarshalChoices :
         Called("SignTransaction", "", NoRegistry, dSwap, SignTransaction(dSwap, chainKeys, lib))
    /\ UNCHANGED <<nodeVars, swapVars, hubVars, transferVars, callVars>>

CallSubmitTransaction ==
    /\ dSwap.set
    /\ \E ethNode \in EthSubmitAnswers, solNode \in SolSubmitAnswers :
         LET res == SubmitTransaction(dSwap, ethNode, solNode) IN
         /\ NodeCanAnswer(dSwap, ethNode, solNode, ethNonce)
         /\ NonceAfter(res, ethNonce) <= MaxNonce + 1
         /\ ethNonce' = NonceAfter(res, ethNonce)
         /\ Called("SubmitTransaction", "", NoRegistry, dSwap, res)
    /\ UNCHANGED <<chainKeys, swapVars, hubVars, transferVars, callVars>>

(***************************************************************************)
(* The notification hub.  The broadcast channel is unbuffered: a send is a *)
(* rendezvous with the receive of handleBroadcasts.  The registry lock is  *)
(* held in read mode from the receive to the end of the range; Connect and *)
(* the deferred unregistration need it in write mode.                       *)
(***************************************************************************)
\* WSMessage{Type, Data, Error}; req is not in the code: it tells the events
\* of two requests apart
WSMessage(type, data, error, req) ==
    [type |-> type, data |-> data, error |-> error, req |-> req]

NoMessage == WSMessage("", "", "", "")

\* a HandleWebSocket goroutine is between Lock and Unlock
WriteLockHeld == \E c \in Conns : handler[c] \in {"registering", "unregistering"}

\* variant: Lock does not wait for the reader
clientsLockIgnoresReader == IF WriteLockHeld THEN "Lock" ELSE "free"

\* the clientsLock: held in read mode by handleBroadcasts during the range,
\* in write mode by a HandleWebSocket goroutine
clientsLock ==
    IF hubPc = "iter" THEN "RLock" ELSE IF WriteLockHeld THEN "Lock" ELSE "free"

\* variant: the range is left at the first failed write
AfterWriteErrorLeavesRange(todo, c) == {}

\* variant: the range comes back to a connection whose write failed
AfterWriteErrorComesBack(todo, c) == todo

\* the range of handleBroadcasts after the write to c failed
AfterWriteError(todo, c) == todo \ {c}

\* for msg := range c.broadcast, RLock, and the start of the range
handleBroadcastsReceive(msg) ==
    /\ hubPc = "recv"
    /\ ~WriteLockHeld
    /\ hubPc' = "iter"
    /\ hubMsg' = msg
    /\ hubTodo' = clients
    /\ hubSnap' = clients
    /\ hubFailed' = {}
    /\ hubCur' = ""
    /\ hubLog' = Append(hubLog, msg)
    /\ UNCHANGED <<pruned, writeVars>>

\* variant: the event is put ahead of what was written before
WriteJSONAhead(written, msg) == <<msg>> \o written

\* client.WriteJSON(msg) on a connection that accepts it: what the peer
\* has been written so far, and the message after it
WriteJSON(written, msg) == Append(written, msg)

\* one pass of the range body: WriteJSON to c, and on error Close and delete
handleBroadcastsWrite(c) ==
    /\ hubPc = "iter"
    /\ \/ hubCur = "" /\ c \in hubTodo
       \/ hubCur = c
    /\ IF conn[c] = "closed" THEN
          /\ clients' = clients \ {c}
          /\ pruned' = pruned \cup {c}
          /\ hubFailed' = hubFailed \cup {c}
          /\ hubTodo' = AfterWriteError(hubTodo, c)
          /\ hubCur' = ""
          /\ UNCHANGED inbox
       ELSE IF stalled[c] THEN
          /\ hubCur = ""
          /\ hubCur' = c
          /\ UNCHANGED <<clients, hubFailed, hubTodo, inbox, pruned>>
       ELSE
          /\ inbox' = [inbox EXCEPT ![c] = WriteJSON(@, hubMsg)]
          /\ hubTodo' = hubTodo \ {c}
          /\ hubCur' = ""
          /\ UNCHANGED <<clients, hubFailed, pruned>>
    /\ UNCHANGED <<conn, stalled, handler, inbound, hubPc, hubMsg, hubSnap, hubLog, writeVars>>
    /\ UNCHANGED <<nodeVars, swapVars, directVars, transferVars, callVars>>

\* the range is over: RUnlock, back to the receive
handleBroadcastsUnlock ==
    /\ hubPc = "iter"
    /\ hubTodo = {}
    /\ hubCur = ""
    /\ hubPc' = "recv"
    /\ hubMsg' = NoMessage
    /\ hubSnap' = {}
    /\ hubFailed' = {}
    /\ UNCHANGED <<hubTodo, hubCur, hubLog, pruned, connVars, writeVars>>
    /\ UNCHANGED <<nodeVars, swapVars, directVars, transferVars, callVars>>

\* the registry lock can be taken in write mode
WriteLockFree == clientsLock = "free"

\* HandleWebSocket: Upgrade, then Lock, c.clients[conn] = true, Unlock
HandleWebSocketRegister(c) ==
    /\ conn[c] = "none"
    /\ WriteLockFree
    /\ conn' = [conn EXCEPT ![c] = "open"]
    /\ handler' = [handler EXCEPT ![c] = "registered"]
    /\ clients' = clients \cup {c}
    /\ UNCHANGED <<stalled, inbox, inbound, loopVars, writeVars>>
    /\ UNCHANGED <<nodeVars, swapVars, directVars, transferVars, callVars>>

\* HandleWebSocket: Upgrade returned the connection, Lock is called next
HandleWebSocketUpgrade(c) ==
    /\ conn[c] = "none"
    /\ conn' = [conn EXCEPT ![c] = "open"]
    /\ handler' = [handler EXCEPT ![c] = "upgraded"]
    /\ UNCHANGED <<clients, stalled, inbox, inbound, loopVars, writeVars>>
    /\ UNCHANGED <<nodeVars, swapVars, directVars, transferVars, callVars>>

\* HandleWebSocket: Lock returns
HandleWebSocketLock(c) ==
    /\ handler[c] = "upgraded"
    /\ WriteLockFree
    /\ handler' = [handler EXCEPT ![c] = "registering"]
    /\ UNCHANGED <<clients, conn, stalled, inbox, inbound, loopVars, writeVars>>
    /\ UNCHANGED <<nodeVars, swapVars, directVars, transferVars, callVars>>

\* HandleWebSocket: c.clients[conn] = true, then Unlock
HandleWebSocketAdd(c) ==
    /\ handler[c] = "registering"
    /\ clients' = clients \cup {c}
    /\ handler' = [handler EXCEPT ![c] = "registered"]
    /\ UNCHANGED <<conn, stalled, inbox, inbound, loopVars, writeVars>>
    /\ UNCHANGED <<nodeVars, swapVars, directVars, transferVars, callVars>>

\* HandleWebSocket: ReadJSON returned an error and the Lock of the deferred
\* function returns
HandleWebSocketDeferLock(c) ==
    /\ handler[c] = "reading"
    /\ conn[c] = "closed"
    /\ WriteLockFree
    /\ handler' = [handler EXCEPT ![c] = "unregistering"]
    /\ UNCHANGED <<clients, conn, stalled, inbox, inbound, loopVars, writeVars>>
    /\ UNCHANGED <<nodeVars, swapVars, directVars, transferVars, callVars>>

\* the deferred function: delete(c.clients, conn), Unlock, Close
HandleWebSocketDelete(c) ==
    /\ handler[c] = "unregistering"
    /\ clients' = clients \ {c}
    /\ handler' = [handler EXCEPT ![c] = "exited"]
    /\ UNCHANGED <<conn, stalled, inbox, inbound, loopVars, writeVars>>
    /\ UNCHANGED <<nodeVars, swapVars, directVars, transferVars, callVars>>

\* variant: the goroutine of a connection writes to every open connection
HandlerWriteToAll(c, msg) ==
    inbox' = [d \in Conns |-> IF conn[d] = "open" THEN Append(inbox[d], msg) ELSE inbox[d]]

\* a WriteJSON of the connection's own goroutine, its error dropped
HandlerWrite(c, msg) ==
    IF conn[c] = "open" THEN inbox' = [inbox EXCEPT ![c] = Append(@, msg)]
    ELSE UNCHANGED inbox

\* HandleWebSocket: the initial connected message
HandleWebSocketConnected(c) ==
    /\ handler[c] = "registered"
    /\ ~(conn[c] = "open" /\ stalled[c])
    /\ HandlerWrite(c, WSMessage("connected", "Successfully connected to WebSocket", "", ""))
    /\ handler' = [handler EXCEPT ![c] = "reading"]
    /\ UNCHANGED <<clients, conn, stalled, inbound, loopVars, writeVars>>
    /\ UNCHANGED <<nodeVars, swapVars, directVars, transferVars, callVars>>

\* variant: every inbound message is taken for a ping
ReplyPongToAny(type) == WSMessage("pong", "pong", "", "")

\* variant: the ping case is missing from the switch
ReplyErrorToAny(type) == WSMessage("error", "", "Unknown message type", "")

\* the reply to an inbound message of the given type
Reply(type) ==
    IF type = "ping" THEN WSMessage("pong", "pong", "", "")
    ELSE WSMessage("error", "", "Unknown message type", "")

\* HandleWebSocket: ReadJSON returned a message and its reply is written
HandleWebSocketMessage(c) ==
    /\ handler[c] = "reading"
    /\ conn[c] = "open"
    /\ ~stalled[c]
    /\ c \in SendingConns
    /\ Len(inbound[c]) < MaxInbound
    /\ \E type \in InboundTypes :
         /\ inbound' = [inbound EXCEPT ![c] = Append(@, type)]
         /\ HandlerWrite(c, Reply(type))
    /\ UNCHANGED <<clients, conn, stalled, handler, loopVars, writeVars>>
    /\ UNCHANGED <<nodeVars, swapVars, directVars, transferVars, callVars>>

\* a subscriber that sends one message while events are broadcast
HubSubscriberMessage(c) == inbound[c] = <<>> /\ HandleWebSocketMessage(c)

\* variant: the goroutine ends and leaves its registry entry behind
HandleWebSocketExitKeepsEntry(c) ==
    /\ handler[c] = "reading"
    /\ conn[c] = "closed"
    /\ WriteLockFree
    /\ handler' = [handler EXCEPT ![c] = "exited"]
    /\ UNCHANGED <<clients, conn, stalled, inbox, inbound, loopVars, writeVars>>
    /\ UNCHANGED <<nodeVars, swapVars, directVars, transferVars, callVars>>

\* HandleWebSocket: ReadJSON returned an error; the deferred function
\* takes the lock, deletes the connection and closes it
HandleWebSocketExit(c) ==
    /\ handler[c] = "reading"
    /\ conn[c] = "closed"
    /\ WriteLockFree
    /\ clients' = clients \ {c}
    /\ handler' = [handler EXCEPT ![c] = "exited"]
    /\ UNCHANGED <<conn, stalled, inbox, inbound, loopVars, writeVars>>
    /\ UNCHANGED <<nodeVars, swapVars, directVars, transferVars, callVars>>

\* the peer closes the connection, or the network drops it
PeerClose(c) ==
    /\ c \in ClosingConns
    /\ conn[c] = "open"
    /\ conn' = [conn EXCEPT ![c] = "closed"]
    /\ stalled' = [stalled EXCEPT ![c] = FALSE]
    /\ UNCHANGED <<clients, handler, inbox, inbound, loopVars, writeVars>>
    /\ UNCHANGED <<nodeVars, swapVars, directVars, transferVars, callVars>>

\* the peer stops reading, or reads again
PeerStall(c) ==
    /\ c \in StallingConns
    /\ conn[c] = "open"
    /\ stalled' = [stalled EXCEPT ![c] = ~@]
    /\ UNCHANGED <<clients, conn, handler, inbox, inbound, loopVars, writeVars>>
    /\ UNCHANGED <<nodeVars, swapVars, directVars, transferVars, callVars>>

(***************************************************************************)
(* The writes to a connection, each WriteJSON as a call that is entered    *)
(* and later returns.  Nothing orders the WriteJSON of handleBroadcasts    *)
(* and the WriteJSON calls of the connection's own goroutine.              *)
(***************************************************************************)
\* handleBroadcasts is inside client.WriteJSON(msg) on c
HubWriting(c) == hubCur = c

\* the goroutine of c is inside conn.WriteJSON
HandlerWriting(c) == handler[c] \in {"connecting", "replying"}

ConnectedMessage == WSMessage("connected", "Successfully connected to WebSocket", "", "")

\* what two WriteJSON calls at once may leave on the wire
Garbled == WSMessage("garbled", "", "", "")

\* a call that is alone on the connection writes its message; two calls at
\* once race on the connection: the message may still be written, the
\* frames may be mixed, or the call panics
WriteOutcomes(c) == IF c \in raced THEN {"written", "garbled", "panic"} ELSE {"written"}

Written(msg, out) == IF out = "written" THEN msg ELSE Garbled

\* a WriteJSON on c is entered, or returns, while other tells whether the
\* other context is inside one
RacedAfterBegin(c, other) == IF other THEN raced \cup {c} ELSE raced
RacedAfterReturn(c, other) == IF other THEN raced ELSE raced \ {c}

\* handleBroadcasts enters client.WriteJSON(msg)
handleBroadcastsWriteBegin(c) ==
    /\ hubPc = "iter"
    /\ hubCur = ""
    /\ c \in hubTodo
    /\ hubCur' = c
    /\ raced' = RacedAfterBegin(c, HandlerWriting(c))
    /\ UNCHANGED <<hubPc, hubMsg, hubTodo, hubSnap, hubFailed, hubLog, pruned, connVars>>
    /\ UNCHANGED <<nodeVars, swapVars, directVars, transferVars, callVars>>

\* the WriteJSON of handleBroadcasts returns; on an error Close and delete
handleBroadcastsWriteReturn(c) ==
    /\ hubPc = "iter"
    /\ hubCur = c
    /\ hubCur' = ""
    /\ raced' = RacedAfterReturn(c, HandlerWriting(c))
    /\ IF conn[c] = "closed" THEN
          /\ clients' = clients \ {c}
          /\ pruned' = pruned \cup {c}
          /\ hubFailed' = hubFailed \cup {c}
          /\ hubTodo' = AfterWriteError(hubTodo, c)
          /\ UNCHANGED inbox
       ELSE
          /\ \E out \in WriteOutcomes(c) \ {"panic"} :
               inbox' = [inbox EXCEPT ![c] = Append(@, Written(hubMsg, out))]
          /\ hubTodo' = hubTodo \ {c}
          /\ UNCHANGED <<clients, hubFailed, pruned>>
    /\ UNCHANGED <<conn, stalled, handler, inbound, hubPc, hubMsg, hubSnap, hubLog>>
    /\ UNCHANGED <<nodeVars, swapVars, directVars, transferVars, callVars>>

\* the WriteJSON of handleBroadcasts panics: nothing recovers a panic of
\* this goroutine and the process ends, with every goroutine and connection
handleBroadcastsWritePanic(c) ==
    /\ hubPc = "iter"
    /\ hubCur = c
    /\ conn[c] = "open"
    /\ "panic" \in WriteOutcomes(c)
    /\ hubPc' = "exited"
    /\ hubCur' = ""
    /\ hubTodo' = {}
    /\ raced' = {}
    /\ conn' = [d \in Conns |-> "closed"]
    /\ handler' = [d \in Conns |-> "exited"]
    /\ trPc' = [t \in Transfers |-> "exited"]
    /\ clients' = {}
    /\ UNCHANGED <<stalled, inbox, inbound, hubMsg, hubSnap, hubFailed, hubLog, pruned>>
    /\ UNCHANGED <<trParams, trNft, trSale, trHash, trEvents, trCalls, trLog, trRecorded, trRet>>
    /\ UNCHANGED <<nodeVars, swapVars, directVars, callVars>>

\* HandleWebSocket enters the WriteJSON of the connected message
HandleWebSocketConnectedBegin(c) ==
    /\ handler[c] = "registered"
    /\ handler' = [handler EXCEPT ![c] = "connecting"]
    /\ raced' = RacedAfterBegin(c, HubWriting(c))
    /\ UNCHANGED <<clients, conn, stalled, inbox, inbound, loopVars>>
    /\ UNCHANGED <<nodeVars, swapVars, directVars, transferVars, callVars>>

\* HandleWebSocket: ReadJSON returned a message and the WriteJSON of its
\* reply is entered
HandleWebSocketReplyBegin(c) ==
    /\ handler[c] = "reading"
    /\ conn[c] = "open"
    /\ c \in SendingConns
    /\ inbound[c] = <<>>
    /\ \E type \in InboundTypes : inbound' = [inbound EXCEPT ![c] = Append(@, type)]
    /\ handler' = [handler EXCEPT ![c] = "replying"]
    /\ raced' = RacedAfterBegin(c, HubWriting(c))
    /\ UNCHANGED <<clients, conn, stalled, inbox, loopVars>>
    /\ UNCHANGED <<nodeVars, swapVars, directVars, transferVars, callVars>>

\* the message of the WriteJSON the goroutine of c is inside
HandlerMessage(c) ==
    IF handler[c] = "connecting" THEN ConnectedMessage
    ELSE Reply(inbound[c][Len(inbound[c])])

\* a WriteJSON of HandleWebSocket returns, its error dropped, or panics
HandleWebSocketWriteReturn(c) ==
    /\ HandlerWriting(c)
    /\ raced' = RacedAfterReturn(c, HubWriting(c))
    /\ \E out \in WriteOutcomes(c) :
         IF out = "panic" /\ conn[c] = "open" THEN
            /\ handler' = [handler EXCEPT ![c] = "panicked"]
            /\ UNCHANGED inbox
         ELSE
            /\ HandlerWrite(c, Written(HandlerMessage(c), out))
            /\ handler' = [handler EXCEPT ![c] = "reading"]
    /\ UNCHANGED <<clients, conn, stalled, inbound, loopVars>>
    /\ UNCHANGED <<nodeVars, swapVars, directVars, transferVars, callVars>>

\* HandleWebSocket panicked: the deferred function takes the lock, deletes
\* the connection and closes it, and net/http recovers the panic
HandleWebSocketPanicExit(c) ==
    /\ handler[c] = "panicked"
    /\ WriteLockFree
    /\ clients' = clients \ {c}
    /\ conn' = [conn EXCEPT ![c] = "closed"]
    /\ handler' = [handler EXCEPT ![c] = "exited"]
    /\ UNCHANGED <<stalled, inbox, inbound, loopVars, writeVars>>
    /\ UNCHANGED <<nodeVars, swapVars, directVars, transferVars, callVars>>

(***************************************************************************)
(* ExecuteTransferMutation, one action per step                             *)
(***************************************************************************)
\* parseFloat64: the error of ParseFloat is dropped, the value is then 0
parseFloat64(s) == IF s < 0 THEN 0 ELSE ParseFloat(s)

ZeroNft == [ID |-> 0, Price |-> -1]

\* GetNFTDetails decodes into NFTQueryResponse, which has no errors member
GetNFTDetails(ans) ==
    CASE ans.kind = "transport" -> [err |-> "error executing NFT query", nft |-> ZeroNft]
      [] ans.kind = "decode" -> [err |-> "error parsing NFT query response", nft |-> ZeroNft]
      [] ans.kind = "errors" -> [err |-> "", nft |-> ZeroNft]
      [] OTHER -> [err |-> "", nft |-> [ID |-> ans.ID, Price |-> ans.Price]]

NftAnswers(failures, prices) ==
    [kind : failures, ID : {0}, Price : {-1}]
    \cup [kind : {"data"}, ID : {7}, Price : prices]

\* Ethereum node during the sale: dial, Transact, WaitMined
SaleAnswers == {"dialErr", "transactErr", "waitErr", "mined"}

\* the amount of ExecuteNFTContractTransaction: var amount float64, set
\* only when calSwapAmount > listedPrice
SaleAmount(calSwapAmount, listedPrice) ==
    IF calSwapAmount > listedPrice THEN listedPrice ELSE 0

NoSale == [sent |-> FALSE, tokenId |-> 0, value |-> <<>>]

\* [err, hash, sale, panic]: chainKeys is dereferenced without nil check
ExecuteNFTContractTransaction(tokenId, calSwapAmount, listedPrice, keys, node) ==
    LET sale == [sent |-> TRUE, tokenId |-> tokenId,
                 value |-> ToWei(SaleAmount(calSwapAmount, listedPrice))]
    IN
    IF node = "dialErr" THEN
        [err |-> "failed to connect to Ethereum node", hash |-> "", sale |-> NoSale,
         panic |-> FALSE]
    ELSE IF ~keys.set THEN
        [err |-> "panic", hash |-> "", sale |-> NoSale, panic |-> TRUE]
    ELSE IF node = "transactErr" THEN
        [err |-> "failed to execute sale", hash |-> "", sale |-> NoSale, panic |-> FALSE]
    ELSE IF node = "waitErr" THEN
        [err |-> "failed to wait for transaction", hash |-> "", sale |-> sale,
         panic |-> FALSE]
    ELSE
        [err |-> "", hash |-> "0xSaleHash", sale |-> sale, panic |-> FALSE]

\* the transfer mutation: its error, and whether the backend recorded it
TransferMutation(ans) ==
    CASE ans = "transport" -> [err |-> "error executing transfer", recorded |-> FALSE]
      [] ans = "decode" -> [err |-> "error parsing transfer response", recorded |-> FALSE]
      [] ans = "errors" -> [err |-> "transfer error", recorded |-> FALSE]
      [] OTHER -> [err |-> "", recorded |-> TRUE]

TransferStepAfter(step, toToken) ==
    CASE step = "initiated" -> "details"
      [] step = "details" -> IF toToken = "ETH" THEN "sale" ELSE "pending"
      [] step = "sale" -> "pending"
      [] step = "pending" -> "transfer"
      [] step = "transfer" -> "completed"
      [] OTHER -> "done"

\* variant: the errors of the transfer response are logged and not returned
AfterTransferStepIgnoresTransferError(step, err, toToken) ==
    IF err # "" /\ step # "transfer" THEN "done" ELSE TransferStepAfter(step, toToken)

\* variant: a failed transfer mutation is sent again
AfterTransferStepRetriesTransfer(step, err, toToken) ==
    IF err # "" THEN (IF step = "transfer" THEN "transfer" ELSE "done")
    ELSE TransferStepAfter(step, toToken)

\* control flow of ExecuteTransferMutation after a step returned err
AfterTransferStep(step, err, toToken) ==
    IF err # "" THEN "done" ELSE TransferStepAfter(step, toToken)

NotReturned == [returned |-> FALSE, panic |-> FALSE, err |-> "", hash |-> "", resp |-> FALSE]

\* what ExecuteTransferMutation returns once step has returned err; a
\* panic unwinds the goroutine and nothing is returned
TransferReturned(step, err, hash, panic) ==
    IF panic THEN [NotReturned EXCEPT !.panic = TRUE]
    ELSE IF err # "" THEN
        [returned |-> TRUE, panic |-> FALSE, err |-> err, hash |-> "", resp |-> FALSE]
    ELSE IF step = "completed" THEN
        [returned |-> TRUE, panic |-> FALSE, err |-> "", hash |-> hash, resp |-> TRUE]
    ELSE NotReturned

\* a step of ExecuteTransferMutation that ran: the answer its callee got and
\* the error it returned
TransferStep(step, answer, err) == [step |-> step, answer |-> answer, err |-> err]

\* the status in the Data of a lifecycle event
EventStatus(type) ==
    CASE type = "nft_transfer_initiated" -> "initiated"
      [] type = "nft_transfer_pending" -> "pending"
      [] type = "nft_transfer_completed" -> "completed"
      [] OTHER -> ""

\* variant: the event carries the text of an error
BroadcastWithError(t, type) ==
    /\ handleBroadcastsReceive(WSMessage(type, EventStatus(type), "transfer error", t))
    /\ trEvents' = [trEvents EXCEPT ![t] = Append(@, type)]
    /\ UNCHANGED connVars

\* c.broadcast <- WSMessage{Type: type}: the send and the hub's receive
Broadcast(t, type) ==
    /\ handleBroadcastsReceive(WSMessage(type, EventStatus(type), "", t))
    /\ trEvents' = [trEvents EXCEPT ![t] = Append(@, type)]
    /\ UNCHANGED connVars

\* ExecuteTransferMutation is called with params: its first statement
ExecuteTransferMutationCalled(t, params) ==
    /\ trPc[t] = "initiated"
    /\ trParams' = [trParams EXCEPT ![t] = params]
    /\ Broadcast(t, "nft_transfer_initiated")
    /\ trPc' = [trPc EXCEPT ![t] = AfterTransferStep("initiated", "", "")]
    /\ UNCHANGED <<trNft, trSale, trHash, trCalls, trLog, trRecorded, trRet>>
    /\ UNCHANGED <<nodeVars, swapVars, directVars>>

ExecuteTransferInitiated(t) ==
    /\ \E toToken \in TransferTokensOf(t), amount \in TransferAmountsOf(t) :
         ExecuteTransferMutationCalled(t, [ToToken |-> toToken, Amount |-> amount])
    /\ UNCHANGED callVars

ExecuteTransferDetails(t) ==
    /\ trPc[t] = "details"
    /\ \E ans \in NftAnswers(DetailsFailuresOf(t), NftPricesOf(t)) :
         LET res == GetNFTDetails(ans) IN
         /\ trNft' = [trNft EXCEPT ![t] = res.nft]
         /\ trPc' = [trPc EXCEPT ![t] =
                        AfterTransferStep("details", res.err, trParams[t].ToToken)]
         /\ trRet' = [trRet EXCEPT ![t] = TransferReturned("details", res.err, "", FALSE)]
         /\ trLog' = [trLog EXCEPT ![t] = Append(@, TransferStep("details", ans.kind, res.err))]
    /\ trCalls' = [trCalls EXCEPT ![t] = Append(@, "nft.nftUsingBlobHash")]
    /\ UNCHANGED <<trParams, trSale, trHash, trEvents, trRecorded>>
    /\ UNCHANGED <<nodeVars, swapVars, directVars, hubVars, callVars>>

ExecuteTransferSale(t) ==
    /\ trPc[t] = "sale"
    /\ \E node \in SaleAnswers :
         LET res == ExecuteNFTContractTransaction(
                        trNft[t].ID, parseFloat64(trParams[t].Amount),
                        parseFloat64(trNft[t].Price), chainKeys, node)
         IN
         /\ trSale' = [trSale EXCEPT ![t] = res.sale]
         /\ trHash' = [trHash EXCEPT ![t] = res.hash]
         /\ trPc' = [trPc EXCEPT ![t] =
                        AfterTransferStep("sale", res.err, trParams[t].ToToken)]
         /\ trRet' = [trRet EXCEPT ![t] = TransferReturned("sale", res.err, "", res.panic)]
         /\ trCalls' = [trCalls EXCEPT ![t] =
                          IF res.sale.sent THEN Append(@, "eth.executeSale") ELSE @]
         /\ trLog' = [trLog EXCEPT ![t] = Append(@, TransferStep("sale", node, res.err))]
    /\ UNCHANGED <<trParams, trNft, trEvents, trRecorded>>
    /\ UNCHANGED <<nodeVars, swapVars, directVars, hubVars, callVars>>

ExecuteTransferPending(t) ==
    /\ trPc[t] = "pending"
    /\ Broadcast(t, "nft_transfer_pending")
    /\ trPc' = [trPc EXCEPT ![t] = AfterTransferStep("pending", "", "")]
    /\ UNCHANGED <<trParams, trNft, trSale, trHash, trCalls, trLog, trRecorded, trRet>>
    /\ UNCHANGED <<nodeVars, swapVars, directVars, callVars>>

ExecuteTransferTransfer(t) ==
    /\ trPc[t] = "transfer"
    /\ \E ans \in TransferFailuresOf(t) \cup {"data"} :
         LET res == TransferMutation(ans) IN
         /\ trRecorded' = [trRecorded EXCEPT ![t] = res.recorded]
         /\ trPc' = [trPc EXCEPT ![t] =
                        AfterTransferStep("transfer", res.err, trParams[t].ToToken)]
         /\ trRet' = [trRet EXCEPT ![t] = TransferReturned("transfer", res.err, "", FALSE)]
         /\ trLog' = [trLog EXCEPT ![t] = Append(@, TransferStep("transfer", ans, res.err))]
    /\ trCalls' = [trCalls EXCEPT ![t] = Append(@, "nft.transfer")]
    /\ UNCHANGED <<trParams, trNft, trSale, trHash, trEvents>>
    /\ UNCHANGED <<nodeVars, swapVars, directVars, hubVars, callVars>>

ExecuteTransferCompleted(t) ==
    /\ trPc[t] = "completed"
    /\ Broadcast(t, "nft_transfer_completed")
    /\ trPc' = [trPc EXCEPT ![t] = AfterTransferStep("completed", "", "")]
    /\ trRet' = [trRet EXCEPT ![t] = TransferReturned("completed", "", trHash[t], FALSE)]
    /\ UNCHANGED <<trParams, trNft, trSale, trHash, trCalls, trLog, trRecorded>>
    /\ UNCHANGED <<nodeVars, swapVars, directVars, callVars>>

(***************************************************************************)
(* GetSolanaTransaction: the lookup loop, one action per attempt            *)
(***************************************************************************)
\* for i := 0; i < 10; i++
MaxAttempts == 10

\* makeRPCRequest: a transport or decode error, a response whose result is
\* null (also one that has an error member and no result), or a response
\* with the transaction
LookupAnswers == {"transport", "null", "visible"}

\* the err of the loop after the attempt that got ans
LookupErr(ans) == IF ans = "transport" THEN "transport" ELSE ""

\* variant: no attempt leaves the loop
LookupBreaksNever(ans) == FALSE

\* the attempt that got ans leaves the loop with break: not the continue of
\* a null result, and err == nil
LookupBreaks(ans) == ans # "null" /\ LookupErr(ans) = ""

\* variant: a Sleep follows every attempt that does not leave the loop
LookupSleepsUnlessBreak(ans) == ans # "visible"

\* time.Sleep(5 * time.Second) follows the attempt that got ans: only in the
\* branch of a response whose result is null; a transport error has no
\* response
LookupSleeps(ans) == ans = "null"

\* the loop is over: by break, or i has reached 10
LookupLoopDone(answers) ==
    \/ Len(answers) >= MaxAttempts
    \/ answers # <<>> /\ LookupBreaks(answers[Len(answers)])

LookupRunning == [returned |-> FALSE, err |-> "", response |-> ""]

\* what follows the loop: err and response are those of the last attempt
GetSolanaTransactionResult(answers) ==
    LET last == answers[Len(answers)] IN
    IF LookupErr(last) # "" THEN
        [returned |-> TRUE, err |-> "failed to get Solana transaction after 10 retries",
         response |-> ""]
    ELSE [returned |-> TRUE, err |-> "", response |-> last]

GetSolanaTransactionAttempt ==
    /\ ~lkRet.returned
    /\ ~LookupLoopDone(lkAnswers)
    /\ \E ans \in LookupAnswers :
         /\ lkAnswers' = Append(lkAnswers, ans)
         /\ lkPauses' = Append(lkPauses, LookupSleeps(ans))
    /\ UNCHANGED <<lkRet, lsPc, lsTx, lsRet, lsArgs, lsEvents, beLast, poolLast, postVars>>
    /\ UNCHANGED <<nodeVars, swapVars, directVars, hubVars, transferVars>>

GetSolanaTransactionReturn ==
    /\ ~lkRet.returned
    /\ LookupLoopDone(lkAnswers)
    /\ lkRet' = GetSolanaTransactionResult(lkAnswers)
    /\ UNCHANGED <<lkAnswers, lkPauses, lsPc, lsTx, lsRet, lsArgs, lsEvents, beLast, poolLast, postVars>>
    /\ UNCHANGED <<nodeVars, swapVars, directVars, hubVars, transferVars>>

(***************************************************************************)
(* ListNftForSale                                                           *)
(***************************************************************************)
\* Ethereum node during ListToken: dial, getListPrice, Transact, WaitMined
ListTokenAnswers == {"dialErr", "callErr", "transactErr", "waitErr", "mined"}

\* [err, hash, panic]: chainKeys is dereferenced without nil check
ListToken(keys, node) ==
    IF node = "dialErr" THEN
        [err |-> "failed to connect to Ethereum node", hash |-> "", panic |-> FALSE]
    ELSE IF node = "callErr" THEN
        [err |-> "failed to get listing price", hash |-> "", panic |-> FALSE]
    ELSE IF ~keys.set THEN [err |-> "panic", hash |-> "", panic |-> TRUE]
    ELSE IF node = "transactErr" THEN
        [err |-> "failed to execute list token transaction", hash |-> "", panic |-> FALSE]
    ELSE IF node = "waitErr" THEN
        [err |-> "failed to wait for transaction", hash |-> "", panic |-> FALSE]
    ELSE [err |-> "", hash |-> "0xListHash", panic |-> FALSE]

\* the listNftForSale mutation: the error of ListNftForSale, "" if none
ListMutation(ans) ==
    CASE ans = "transport" -> "error executing mutation"
      [] ans = "decode" -> "error parsing response"
      [] ans = "errors" -> "mutation error"
      [] OTHER -> ""

\* the arguments of a ListNftForSale request
ListingRequests ==
    {[owner |-> "alice", chainId |-> "chain1", tokenId |-> "token7", price |-> "2.5",
      nftId |-> "7", chainOwner |-> "User:alice"]}

NoListing ==
    [owner |-> "", chainId |-> "", tokenId |-> "", price |-> "", nftId |-> "",
     chainOwner |-> ""]

\* the Data of an nft_listed event as WriteJSON encodes the map
ListedData(tokenId, price, owner) ==
    "{owner:" \o owner \o ",price:" \o price \o ",tokenId:" \o tokenId \o "}"

\* variant: the event carries the id of the NFT on the marketplace contract
NftListedWithNftId(args) ==
    WSMessage("nft_listed", ListedData(args.nftId, args.price, args.owner), "", "l1")

\* the event of a new listing; its Data is the tokenId, price and owner
NftListedOf(args) ==
    WSMessage("nft_listed", ListedData(args.tokenId, args.price, args.owner), "", "l1")

NftListed == NftListedOf(CHOOSE args \in ListingRequests : TRUE)

ListNftForSaleListToken ==
    /\ lsPc = "listToken"
    /\ \E args \in ListingRequests, node \in ListTokenAnswers :
         LET res == ListToken(chainKeys, node) IN
         /\ lsArgs' = args
         /\ lsTx' = res.hash
         /\ lsPc' = IF res.err = "" THEN "mutation" ELSE "done"
         /\ lsRet' = TransferReturned("listToken", res.err, "", res.panic)
    /\ UNCHANGED <<lkAnswers, lkRet, lkPauses, lsEvents, beLast, poolLast, postVars>>
    /\ UNCHANGED <<nodeVars, swapVars, directVars, hubVars, transferVars>>

ListNftForSaleMutation ==
    /\ lsPc = "mutation"
    /\ \E ans \in BackendFailures \cup {"data"} :
         /\ lsPc' = IF ListMutation(ans) = "" THEN "broadcast" ELSE "done"
         /\ lsRet' = TransferReturned("mutation", ListMutation(ans), "", FALSE)
    /\ UNCHANGED <<lkAnswers, lkRet, lkPauses, lsTx, lsArgs, lsEvents, beLast, poolLast, postVars>>
    /\ UNCHANGED <<nodeVars, swapVars, directVars, hubVars, transferVars>>

\* c.broadcast <- WSMessage{Type: "nft_listed"}, then return response, nil
ListNftForSaleBroadcast ==
    /\ lsPc = "broadcast"
    /\ handleBroadcastsReceive(NftListedOf(lsArgs))
    /\ lsEvents' = Append(lsEvents, NftListedOf(lsArgs))
    /\ lsPc' = "done"
    /\ lsRet' = TransferReturned("completed", "", lsTx, FALSE)
    /\ UNCHANGED <<lkAnswers, lkRet, lkPauses, lsTx, lsArgs, beLast, poolLast, connVars, postVars>>
    /\ UNCHANGED <<nodeVars, swapVars, directVars, transferVars>>

(***************************************************************************)
(* The GraphQL operations of the backends, and GetPool, called on their own *)
(***************************************************************************)
BackendOps ==
    {"calculateSwap", "swap", "getAllPools", "getAllPoolBalances", "getFileSolverApp",
     "getTransaction", "nftUsingBlobHash", "transfer", "listNftForSale",
     "publishDataBlob", "mint", "nfts"}

\* the functions that test len(Errors) > 0 after decoding: all but GetFile,
\* GetTransactionByHash and GetNFTDetails, whose result types have no
\* errors member
ChecksErrors(op) == op \notin {"getFileSolverApp", "getTransaction", "nftUsingBlobHash"}

\* what the function of op returns on the backend's answer: the error, ""
\* if none, and the value ("zero": the zero value or nil decoded from a
\* response without data)
BackendCall(op, ans) ==
    CASE ans = "transport" -> [err |-> "error sending request", value |-> ""]
      [] ans = "decode" -> [err |-> "error parsing response", value |-> ""]
      [] ans = "errors" ->
            IF ChecksErrors(op) THEN [err |-> "GraphQL error", value |-> ""]
            ELSE [err |-> "", value |-> "zero"]
      [] OTHER -> [err |-> "", value |-> "data"]

NoBackendCall == [called |-> FALSE, op |-> "", ans |-> "", err |-> "", value |-> ""]

CallBackend ==
    /\ \E op \in BackendOps, ans \in BackendFailures \cup {"data"} :
         beLast' = [called |-> TRUE, op |-> op, ans |-> ans,
                    err |-> BackendCall(op, ans).err, value |-> BackendCall(op, ans).value]
    /\ UNCHANGED <<lkAnswers, lkRet, lkPauses, lsPc, lsTx, lsRet, lsArgs, lsEvents, poolLast, postVars>>
    /\ UNCHANGED <<nodeVars, swapVars, directVars, hubVars, transferVars>>

\* GetPool reuses getPoolAddress
GetPool(chain, ans) == getPoolAddress(chain, ans)

NoPoolCall == [called |-> FALSE, name |-> "", ans |-> [kind |-> "", pools |-> <<>>],
               err |-> "", addr |-> ""]

CallGetPool ==
    /\ \E name \in PoolNames, ans \in GetPoolAnswers :
         poolLast' = [called |-> TRUE, name |-> name, ans |-> ans,
                      err |-> GetPool(name, ans).err, addr |-> GetPool(name, ans).addr]
    /\ UNCHANGED <<lkAnswers, lkRet, lkPauses, lsPc, lsTx, lsRet, lsArgs, lsEvents, beLast, postVars>>
    /\ UNCHANGED <<nodeVars, swapVars, directVars, hubVars, transferVars>>

(***************************************************************************)
(* Specifications                                                          *)
(***************************************************************************)
(***************************************************************************)
(* handlePostTxHash (client/main.go), one action per step of a request     *)
(***************************************************************************)
\* the query parameters a request may carry, and its method
PostRequests ==
    [method : {"POST", "GET"}, txHash : {"", "h1"},
     chain : {"", "solana", "ethereum", "bitcoin"}, toToken : {"", "ETH", "SOL"},
     destinationAddress : {"", "0xDest"}]

NoRequest ==
    [method |-> "", txHash |-> "", chain |-> "", toToken |-> "", destinationAddress |-> ""]

\* the transfer request that handlePostTxHash makes: that of the first
\* POST, or that of the one after it
PostTransfer == IF hxDone = <<>> THEN "t1" ELSE "t2"

\* a decimal numeral as big.Int.String() writes it
RECURSIVE Digits(_)
Digits(n) == IF n < 10 THEN <<n>> ELSE Append(Digits(n \div 10), n % 10)

\* tx: "value" is the decimal wei of an Ethereum transaction (<<>>: no such
\* member), result is that of a Solana response ("": no such member), pre
\* and post are the first preBalances and postBalances of its meta
Tx(value, result, pre, post) ==
    [value |-> value, result |-> result, pre |-> pre, post |-> post]

NoTx == Tx(<<>>, "", 0, 0)

\* complete runs of the lookup loop, by the answers to its attempts
LookupRuns ==
    {run \in {<<"visible">>, <<"null", "visible">>, <<"transport", "visible">>,
              [i \in 1..MaxAttempts |-> "null"], [i \in 1..MaxAttempts |-> "transport"]} :
        /\ LookupLoopDone(run)
        /\ \A k \in 1..(Len(run) - 1) : ~LookupLoopDone(SubSeq(run, 1, k))}

\* what a Solana response with the given result may hold
SolanaTransactions(response) ==
    IF response = "visible"
    THEN {Tx(<<>>, "noMeta", 0, 0), Tx(<<>>, "meta", 5000, 3000), Tx(<<>>, "meta", 3000, 3000)}
    ELSE {Tx(<<>>, "null", 0, 0)}

\* Ethereum node during GetEthereumTransaction: dial, TransactionByHash
EthLookupAnswers == {"dialErr", "notFound", "found"}

\* the values of the transactions found: 0.5 ETH, 3 ETH, 2 * 10^38 wei
EthereumTransactions ==
    {Tx(v, "", 0, 0) : v \in {<<5>> \o Zeros(17), <<3>> \o Zeros(18), <<2>> \o Zeros(38)}}

GetEthereumTransaction(node, tx) ==
    CASE node = "dialErr" -> [err |-> "failed to connect to Ethereum node", tx |-> NoTx]
      [] node = "notFound" -> [err |-> "failed to get Ethereum transaction", tx |-> NoTx]
      [] OTHER -> [err |-> "", tx |-> tx]

\* GetSolanaTransaction over a complete run; tx is what the last response
\* holds
GetSolanaTransaction(run, tx) ==
    LET res == GetSolanaTransactionResult(run) IN
    [err |-> res.err, tx |-> IF res.err = "" THEN tx ELSE NoTx]

\* the switch on chain: [err, status, tx]
LookupTransaction(chain, run, node, solTx, ethTx) ==
    CASE chain = "solana" ->
           LET res == GetSolanaTransaction(run, solTx) IN
           [err |-> res.err, status |-> IF res.err = "" THEN 0 ELSE 500, tx |-> res.tx]
      [] chain = "ethereum" ->
           LET res == GetEthereumTransaction(node, ethTx) IN
           [err |-> res.err, status |-> IF res.err = "" THEN 0 ELSE 500, tx |-> res.tx]
      [] OTHER -> [err |-> "Invalid chain parameter", status |-> 400, tx |-> NoTx]

\* the parameter checks before the lookup: [err, status]
ValidateRequest(req) ==
    IF req.method # "POST" THEN [err |-> "Method not allowed", status |-> 405]
    ELSE IF req.txHash = "" THEN [err |-> "txHash parameter is required", status |-> 400]
    ELSE IF req.chain = "" THEN [err |-> "chain parameter is required", status |-> 400]
    ELSE [err |-> "", status |-> 0]

getTokenForChain(chain) ==
    CASE chain = "ethereum" -> [err |-> "", token |-> "ETH"]
      [] chain = "solana" -> [err |-> "", token |-> "SOL"]
      [] OTHER -> [err |-> "unsupported chain", token |-> ""]

\* 2^64 as a decimal numeral
Uint64Limit == <<1, 8, 4, 4, 6, 7, 4, 4, 0, 7, 3, 7, 0, 9, 5, 5, 1, 6, 1, 6>>

\* big.Int.IsUint64 of the numeral d
IsUint64(d) ==
    \/ Len(d) < Len(Uint64Limit)
    \/ /\ Len(d) = Len(Uint64Limit)
       /\ \E i \in 1..Len(d) :
             /\ d[i] < Uint64Limit[i]
             /\ \A j \in 1..(i - 1) : d[j] = Uint64Limit[j]

\* extractAmountFromTx: [err, amount], the amount as the numeral of its
\* 10^-9 units.  The wei are divided by 10^18 as integers; the lamports
\* the first account lost are divided by 1e9 as float64
extractAmountFromTx(tx) ==
    IF tx.value # <<>> THEN
        LET eth == IF Len(tx.value) > 18 THEN SubSeq(tx.value, 1, Len(tx.value) - 18)
                   ELSE <<0>>
        IN  IF ~IsUint64(eth) THEN
                [err |-> "converted ETH value exceeds uint64 range", amount |-> <<0>>]
            ELSE [err |-> "", amount |-> IF eth = <<0>> THEN eth ELSE eth \o Zeros(9)]
    ELSE IF tx.result = "meta" /\ tx.pre > tx.post THEN
        [err |-> "", amount |-> Digits(tx.pre - tx.post)]
    ELSE [err |-> "could not extract amount from transaction", amount |-> <<0>>]

PostStep(step, err) == [step |-> step, err |-> err]

PostStepAfter(step, req) ==
    CASE step = "validate" -> "lookup"
      [] step = "lookup" ->
           IF req.toToken # "" /\ req.destinationAddress # "" THEN "extract" ELSE "done"
      [] step = "extract" -> "quote"
      [] step = "quote" -> "transfer"
      [] step = "transfer" -> "wait"
      [] OTHER -> "done"

\* variant: the error of CalculateSwap is not returned
AfterPostStepIgnoresQuoteError(step, err, req) ==
    IF err # "" /\ step # "quote" THEN "done" ELSE PostStepAfter(step, req)

\* control flow of handlePostTxHash after a step returned err
AfterPostStep(step, err, req) ==
    IF err # "" THEN "done" ELSE PostStepAfter(step, req)

\* the status written when step returned err and pc comes next
PostStatus(err, status, pc) ==
    IF err # "" THEN status ELSE IF pc = "done" THEN 200 ELSE 0

\* the requests that may come next: any as the first, and after it the
\* same once more
NextRequests == IF hxDone = <<>> THEN PostRequests ELSE {hxDone[Len(hxDone)]}

PostTxHashValidate ==
    /\ hxPc = "idle"
    /\ \E req \in NextRequests :
         LET res == ValidateRequest(req)
             pc == AfterPostStep("validate", res.err, req)
         IN  /\ hxReq' = req
             /\ hxPc' = pc
             /\ hxLog' = Append(hxLog, PostStep("validate", res.err))
             /\ hxStatus' = PostStatus(res.err, res.status, pc)
    /\ UNCHANGED <<hxTx, hxQuote, hxDone>>
    /\ UNCHANGED <<lkAnswers, lkRet, lkPauses, lsPc, lsTx, lsRet, lsArgs, lsEvents, beLast,
                   poolLast>>
    /\ UNCHANGED <<nodeVars, swapVars, directVars, hubVars, transferVars>>

PostTxHashLookup ==
    /\ hxPc = "lookup"
    /\ \E run \in LookupRuns, node \in EthLookupAnswers, ethTx \in EthereumTransactions :
         \E solTx \in SolanaTransactions(run[Len(run)]) :
           LET res == LookupTransaction(hxReq.chain, run, node, solTx, ethTx)
               pc == AfterPostStep("lookup", res.err, hxReq)
           IN  /\ hxTx' = res.tx
               /\ hxPc' = pc
               /\ hxLog' = Append(hxLog, PostStep("lookup", res.err))
               /\ hxStatus' = PostStatus(res.err, res.status, pc)
    /\ UNCHANGED <<hxReq, hxQuote, hxDone>>
    /\ UNCHANGED <<lkAnswers, lkRet, lkPauses, lsPc, lsTx, lsRet, lsArgs, lsEvents, beLast,
                   poolLast>>
    /\ UNCHANGED <<nodeVars, swapVars, directVars, hubVars, transferVars>>

PostTxHashExtract ==
    /\ hxPc = "extract"
    /\ LET token == getTokenForChain(hxReq.chain)
           res == IF token.err # "" THEN [err |-> token.err, amount |-> <<0>>]
                  ELSE extractAmountFromTx(hxTx)
           pc == AfterPostStep("extract", res.err, hxReq)
       IN  /\ hxPc' = pc
           /\ hxLog' = Append(hxLog, PostStep("extract", res.err))
           /\ hxStatus' = PostStatus(res.err, 500, pc)
    /\ UNCHANGED <<hxReq, hxTx, hxQuote, hxDone>>
    /\ UNCHANGED <<lkAnswers, lkRet, lkPauses, lsPc, lsTx, lsRet, lsArgs, lsEvents, beLast,
                   poolLast>>
    /\ UNCHANGED <<nodeVars, swapVars, directVars, hubVars, transferVars>>

PostTxHashQuote ==
    /\ hxPc = "quote"
    /\ \E ans \in QuoteAnswers(hxReq.toToken, QuoteAmounts) :
         LET res == CalculateSwap(ans)
             pc == AfterPostStep("quote", res.err, hxReq)
         IN  /\ hxQuote' = res.result
             /\ hxPc' = pc
             /\ hxLog' = Append(hxLog, PostStep("quote", res.err))
             /\ hxStatus' = PostStatus(res.err, 500, pc)
    /\ UNCHANGED <<hxReq, hxTx, hxDone>>
    /\ UNCHANGED <<lkAnswers, lkRet, lkPauses, lsPc, lsTx, lsRet, lsArgs, lsEvents, beLast,
                   poolLast>>
    /\ UNCHANGED <<nodeVars, swapVars, directVars, hubVars, transferVars>>

\* solverClient.ExecuteTransferMutation(transferParams) is called
PostTxHashTransfer ==
    /\ hxPc = "transfer"
    /\ ExecuteTransferMutationCalled(
          PostTransfer,
          [ToToken |-> hxReq.toToken, Amount |-> FormatFloat(hxQuote.ToAmount)])
    /\ hxPc' = AfterPostStep("transfer", "", hxReq)
    /\ hxLog' = Append(hxLog, PostStep("transfer", ""))
    /\ UNCHANGED <<hxReq, hxTx, hxQuote, hxStatus, hxDone>>
    /\ UNCHANGED <<lkAnswers, lkRet, lkPauses, lsPc, lsTx, lsRet, lsArgs, lsEvents, beLast,
                   poolLast>>

\* ExecuteTransferMutation has returned, or has panicked: net/http recovers
\* the panic of a handler and writes no response
PostTxHashRespond ==
    /\ hxPc = "wait"
    /\ trRet[PostTransfer].returned \/ trRet[PostTransfer].panic
    /\ hxPc' = "done"
    /\ hxLog' = Append(hxLog, PostStep("respond", trRet[PostTransfer].err))
    /\ hxStatus' = IF trRet[PostTransfer].panic THEN 0
                   ELSE IF trRet[PostTransfer].err # "" THEN 500 ELSE 200
    /\ UNCHANGED <<hxReq, hxTx, hxQuote, hxDone>>
    /\ UNCHANGED <<lkAnswers, lkRet, lkPauses, lsPc, lsTx, lsRet, lsArgs, lsEvents, beLast,
                   poolLast>>
    /\ UNCHANGED <<nodeVars, swapVars, directVars, hubVars, transferVars>>

\* the request was answered (or its handler has panicked) and the client
\* posts it again: a new call of handlePostTxHash, which keeps nothing of
\* the earlier one
PostTxHashAgain ==
    /\ hxPc = "done"
    /\ hxDone = <<>>
    /\ hxDone' = Append(hxDone, hxReq)
    /\ hxPc' = "idle"
    /\ hxReq' = NoRequest
    /\ hxTx' = NoTx
    /\ hxQuote' = NilQuote
    /\ hxLog' = <<>>
    /\ hxStatus' = 0
    /\ UNCHANGED <<lkAnswers, lkRet, lkPauses, lsPc, lsTx, lsRet, lsArgs, lsEvents, beLast,
                   poolLast>>
    /\ UNCHANGED <<nodeVars, swapVars, directVars, hubVars, transferVars>>

vars == <<chainKeys, ethNonce, swapVars, directVars, hubVars, transferVars, callVars>>

Init ==
    /\ chainKeys = NilKeys
    /\ ethNonce \in 0..MaxNonce
    /\ swapPc = [r \in Requests |-> "quote"]
    /\ swapReq = [r \in Requests |-> [toToken |-> "", dest |-> ""]]
    /\ swapQuote = [r \in Requests |-> NilQuote]
    /\ swapSt = [r \in Requests |-> NilSwap]
    /\ swapLog = [r \in Requests |-> <<>>]
    /\ swapCalls = [r \in Requests |-> {}]
    /\ swapRet = [r \in Requests |-> [returned |-> FALSE, err |-> "", swap |-> NilSwap]]
    /\ dSwap = NilSwap
    /\ dLast = NoCall
    /\ clients = {}
    /\ conn = [c \in Conns |-> "none"]
    /\ stalled = [c \in Conns |-> FALSE]
    /\ handler = [c \in Conns |-> "none"]
    /\ inbox = [c \in Conns |-> <<>>]
    /\ inbound = [c \in Conns |-> <<>>]
    /\ hubPc = "recv"
    /\ hubMsg = NoMessage
    /\ hubTodo = {}
    /\ hubSnap = {}
    /\ hubFailed = {}
    /\ hubCur = ""
    /\ hubLog = <<>>
    /\ pruned = {}
    /\ raced = {}
    /\ trPc = [t \in Transfers |-> "initiated"]
    /\ trParams = [t \in Transfers |-> [ToToken |-> "", Amount |-> 0]]
    /\ trNft = [t \in Transfers |-> ZeroNft]
    /\ trSale = [t \in Transfers |-> NoSale]
    /\ trHash = [t \in Transfers |-> ""]
    /\ trEvents = [t \in Transfers |-> <<>>]
    /\ trCalls = [t \in Transfers |-> <<>>]
    /\ trLog = [t \in Transfers |-> <<>>]
    /\ trRecorded = [t \in Transfers |-> FALSE]
    /\ trRet = [t \in Transfers |-> NotReturned]
    /\ lkAnswers = <<>>
    /\ lkRet = LookupRunning
    /\ lsPc = "listToken"
    /\ lsTx = ""
    /\ lsRet = NotReturned
    /\ lsArgs = NoListing
    /\ hxPc = "idle"
    /\ hxReq = NoRequest
    /\ hxTx = NoTx
    /\ hxQuote = NilQuote
    /\ hxLog = <<>>
    /\ hxStatus = 0
    /\ hxDone = <<>>
    /\ lsEvents = <<>>
    /\ lkPauses = <<>>
    /\ beLast = NoBackendCall
    /\ poolLast = NoPoolCall

NextSwap ==
    \/ InitKeys
    \/ \E r \in Requests : ExecuteSwapQuote(r)
    \/ \E r \in Requests : ExecuteSwapMutation(r)
    \/ \E r \in Requests : ExecuteSwapPrepare(r)
    \/ \E r \in Requests : ExecuteSwapSign(r)
    \/ \E r \in Requests : ExecuteSwapSubmit(r)

\* concurrent ExecuteSwap requests
SwapSpec == Init /\ [][NextSwap]_vars

NextDirect ==
    \/ InitKeys
    \/ NewSwapResponse
    \/ CallPrepareTransaction
    \/ CallSignTransaction
    \/ CallSubmitTransaction

\* the stage methods called directly
DirectSpec == Init /\ [][NextDirect]_vars

NextTransfer ==
    \/ InitKeys
    \/ handleBroadcastsUnlock
    \/ \E t \in Transfers : ExecuteTransferInitiated(t)
    \/ \E t \in Transfers : ExecuteTransferDetails(t)
    \/ \E t \in Transfers : ExecuteTransferSale(t)
    \/ \E t \in Transfers : ExecuteTransferPending(t)
    \/ \E t \in Transfers : ExecuteTransferTransfer(t)
    \/ \E t \in Transfers : ExecuteTransferCompleted(t)

\* no swap is in progress
InitTransfer == Init /\ ethNonce = 0

\* concurrent NFT transfer requests, the hub without subscribers
TransferSpec == InitTransfer /\ [][NextTransfer]_vars

NextHub ==
    \/ \E c \in Conns : HandleWebSocketRegister(c)
    \/ \E c \in Conns : HandleWebSocketConnected(c)
    \/ \E c \in Conns : HubSubscriberMessage(c)
    \/ \E c \in Conns : HandleWebSocketExit(c)
    \/ \E c \in Conns : PeerClose(c)
    \/ \E c \in Conns : PeerStall(c)
    \/ \E c \in Conns : handleBroadcastsWrite(c)
    \/ handleBroadcastsUnlock
    \/ \E t \in Producers : ExecuteTransferInitiated(t)
    \/ \E t \in Producers : ExecuteTransferDetails(t)
    \/ \E t \in Producers : ExecuteTransferPending(t)
    \/ \E t \in Producers : ExecuteTransferTransfer(t)
    \/ \E t \in Producers : ExecuteTransferCompleted(t)

\* the hub, its subscribers, and a transfer request producing the events
HubSpec == InitTransfer /\ [][NextHub]_vars

NextBackend ==
    \/ CallBackend
    \/ CallGetPool

\* the backend operations and GetPool, over every answer
BackendSpec == InitTransfer /\ [][NextBackend]_vars

NextLookup ==
    \/ GetSolanaTransactionAttempt
    \/ GetSolanaTransactionReturn

\* one call of GetSolanaTransaction
LookupSpec == InitTransfer /\ [][NextLookup]_vars

\* the goroutine that called it keeps running and every request is answered
LookupFairSpec == LookupSpec /\ WF_vars(NextLookup)

NextListing ==
    \/ InitKeys
    \/ \E c \in HandlerConns : HandleWebSocketRegister(c)
    \/ \E c \in HandlerConns : HandleWebSocketConnected(c)
    \/ \E c \in HandlerConns : HandleWebSocketExit(c)
    \/ \E c \in HandlerConns : PeerClose(c)
    \/ \E c \in HandlerConns : handleBroadcastsWrite(c)
    \/ handleBroadcastsUnlock
    \/ ListNftForSaleListToken
    \/ ListNftForSaleMutation
    \/ ListNftForSaleBroadcast
    \/ \E t \in Producers : ExecuteTransferInitiated(t)
    \/ \E t \in Producers : ExecuteTransferDetails(t)
    \/ \E t \in Producers : ExecuteTransferPending(t)
    \/ \E t \in Producers : ExecuteTransferTransfer(t)
    \/ \E t \in Producers : ExecuteTransferCompleted(t)

\* one call of ListNftForSale, a transfer request, the hub and two subscribers
ListingSpec == InitTransfer /\ [][NextListing]_vars

NextPostTxHash ==
    \/ InitKeys
    \/ handleBroadcastsUnlock
    \/ PostTxHashValidate
    \/ PostTxHashLookup
    \/ PostTxHashExtract
    \/ PostTxHashQuote
    \/ PostTxHashTransfer
    \/ PostTxHashRespond
    \/ ExecuteTransferDetails(PostTransfer)
    \/ ExecuteTransferSale(PostTransfer)
    \/ ExecuteTransferPending(PostTransfer)
    \/ ExecuteTransferTransfer(PostTransfer)
    \/ ExecuteTransferCompleted(PostTransfer)

\* one POST /post_tx_hash request, no subscriber
PostTxHashSpec == InitTransfer /\ [][NextPostTxHash]_vars

NextRepost ==
    \/ NextPostTxHash
    \/ PostTxHashAgain

\* a POST /post_tx_hash request and the same request once more
RepostSpec == InitTransfer /\ [][NextRepost]_vars

NextWrite ==
    \/ \E c \in SendingConns : HandleWebSocketRegister(c)
    \/ \E c \in SendingConns : HandleWebSocketConnectedBegin(c)
    \/ \E c \in SendingConns : HandleWebSocketReplyBegin(c)
    \/ \E c \in SendingConns : HandleWebSocketWriteReturn(c)
    \/ \E c \in SendingConns : HandleWebSocketPanicExit(c)
    \/ \E c \in SendingConns : HandleWebSocketExit(c)
    \/ \E c \in SendingConns : PeerClose(c)
    \/ \E c \in SendingConns : handleBroadcastsWriteBegin(c)
    \/ \E c \in SendingConns : handleBroadcastsWriteReturn(c)
    \/ \E c \in SendingConns : handleBroadcastsWritePanic(c)
    \/ handleBroadcastsUnlock
    \/ \E t \in Producers : ExecuteTransferInitiated(t)
    \/ \E t \in Producers : ExecuteTransferDetails(t)
    \/ \E t \in Producers : ExecuteTransferPending(t)
    \/ \E t \in Producers : ExecuteTransferTransfer(t)
    \/ \E t \in Producers : ExecuteTransferCompleted(t)

\* the hub and the goroutine of one subscriber, every WriteJSON a call
\* that is entered and returns
WriteSpec == InitTransfer /\ [][NextWrite]_vars

NextRegistry ==
    \/ \E c \in HandlerConns : HandleWebSocketUpgrade(c)
    \/ \E c \in HandlerConns : HandleWebSocketLock(c)
    \/ \E c \in HandlerConns : HandleWebSocketAdd(c)
    \/ \E c \in HandlerConns : HandleWebSocketConnected(c)
    \/ \E c \in HandlerConns : HandleWebSocketDeferLock(c)
    \/ \E c \in HandlerConns : HandleWebSocketDelete(c)
    \/ \E c \in HandlerConns : PeerClose(c)
    \/ \E c \in HandlerConns : handleBroadcastsWrite(c)
    \/ handleBroadcastsUnlock
    \/ \E t \in Producers : ExecuteTransferInitiated(t)
    \/ \E t \in Producers : ExecuteTransferDetails(t)
    \/ \E t \in Producers : ExecuteTransferPending(t)
    \/ \E t \in Producers : ExecuteTransferTransfer(t)
    \/ \E t \in Producers : ExecuteTransferCompleted(t)

\* the hub and two subscribers, the registry changed in a step of its own
\* between Lock and Unlock
RegistrySpec == InitTransfer /\ [][NextRegistry]_vars

NextOrder ==
    \/ InitKeys
    \/ \E c \in Subscribers : HandleWebSocketRegister(c)
    \/ \E c \in Subscribers : HandleWebSocketConnected(c)
    \/ \E c \in Subscribers : handleBroadcastsWrite(c)
    \/ handleBroadcastsUnlock
    \/ \E t \in Transfers : ExecuteTransferInitiated(t)
    \/ \E t \in Transfers : ExecuteTransferDetails(t)
    \/ \E t \in Transfers : ExecuteTransferSale(t)
    \/ \E t \in Transfers : ExecuteTransferPending(t)
    \/ \E t \in Transfers : ExecuteTransferTransfer(t)
    \/ \E t \in Transfers : ExecuteTransferCompleted(t)

\* two transfer requests broadcasting at once, the hub and a subscriber
\* that stays connected
OrderSpec == InitTransfer /\ [][NextOrder]_vars

\* a goroutine that can take a step takes one in the end: the loop of
\* handleBroadcasts, the goroutine of each connection and each request.
\* Nothing is required of the peers, which dial and close as they like.
RegistryFairness ==
    /\ WF_vars(\E c \in HandlerConns : handleBroadcastsWrite(c))
    /\ WF_vars(handleBroadcastsUnlock)
    /\ \A c \in HandlerConns :
          /\ WF_vars(HandleWebSocketLock(c))
          /\ WF_vars(HandleWebSocketAdd(c))
          /\ WF_vars(HandleWebSocketConnected(c))
          /\ WF_vars(HandleWebSocketDeferLock(c))
          /\ WF_vars(HandleWebSocketDelete(c))
    /\ \A t \in Producers :
          WF_vars(\/ ExecuteTransferInitiated(t)
                  \/ ExecuteTransferDetails(t)
                  \/ ExecuteTransferPending(t)
                  \/ ExecuteTransferTransfer(t)
                  \/ ExecuteTransferCompleted(t))

\* RegistrySpec with every write to a subscriber returning and every
\* goroutine scheduled
RegistryFairSpec == RegistrySpec /\ RegistryFairness

NextHandler ==
    \/ \E c \in HandlerConns : HandleWebSocketRegister(c)
    \/ \E c \in HandlerConns : HandleWebSocketConnected(c)
    \/ \E c \in HandlerConns : HandleWebSocketMessage(c)
    \/ \E c \in HandlerConns : HandleWebSocketExit(c)
    \/ \E c \in HandlerConns : PeerClose(c)
    \/ \E c \in HandlerConns : handleBroadcastsWrite(c)
    \/ handleBroadcastsUnlock
    \/ \E t \in Producers : ExecuteTransferInitiated(t)
    \/ \E t \in Producers : ExecuteTransferDetails(t)
    \/ \E t \in Producers : ExecuteTransferPending(t)
    \/ \E t \in Producers : ExecuteTransferTransfer(t)
    \/ \E t \in Producers : ExecuteTransferCompleted(t)

\* subscribers that send several messages while events are broadcast
HandlerSpec == InitTransfer /\ [][NextHandler]_vars

(***************************************************************************)
(* Properties of ExecuteSwap and of the stage methods                      *)
(***************************************************************************)
RanOk(r, stage) ==
    \E i \in 1..Len(swapLog[r]) : swapLog[r][i].stage = stage /\ swapLog[r][i].ok

ReturnedOk(r) == swapRet[r].returned /\ swapRet[r].err = ""

ReturnedError(r) == swapRet[r].returned /\ swapRet[r].err # ""

\* C1: the stages of one ExecuteSwap run in the order quote, swap mutation,
\* PrepareTransaction, SignTransaction, SubmitTransaction; the i-th stage run
\* is the i-th of that order, none is skipped or repeated, and a stage runs
\* only after every earlier one returned without error
C1_StagesInFixedOrder ==
    \A r \in Requests :
        /\ Len(swapLog[r]) <= Len(StageOrder)
        /\ \A i \in 1..Len(swapLog[r]) :
              /\ swapLog[r][i].stage = StageOrder[i]
              /\ i < Len(swapLog[r]) => swapLog[r][i].ok
        /\ swapPc[r] # "done" =>
              /\ swapPc[r] = StageOrder[Len(swapLog[r]) + 1]
              /\ \A i \in 1..Len(swapLog[r]) : swapLog[r][i].ok

\* C1 witness: a request ran all five stages
C1_Witness ==
    \E r \in Requests :
        /\ Len(swapLog[r]) = 5
        /\ \A i \in 1..5 : swapLog[r][i].ok

\* C2: once a stage of ExecuteSwap has failed, no later stage runs for the
\* request and ExecuteSwap has returned an error; after a failure of the
\* quote, the swap mutation, prepare or sign nothing was sent to a chain node
C2_FailureAborts ==
    \A r \in Requests :
        \A i \in 1..Len(swapLog[r]) :
            ~swapLog[r][i].ok =>
                /\ i = Len(swapLog[r])
                /\ swapPc[r] = "done"
                /\ ReturnedError(r)
                /\ ~swapRet[r].swap.set
                /\ swapLog[r][i].stage # "submit" => swapCalls[r] \cap SendCalls = {}

\* C2 witness: a request whose SignTransaction failed
C2_Witness ==
    \E r \in Requests :
        /\ Len(swapLog[r]) = 4
        /\ ~swapLog[r][4].ok
        /\ swapPc[r] = "done"

Unprepared(swap) == ~swap.TxToSign.set

Unsigned(swap) == ~swap.TxToSign.set \/ swap.TxToSign.RawTx = <<>>

\* C4: SignTransaction on a SwapState without prepared transaction, and
\* SubmitTransaction on one without prepared transaction or with empty raw
\* bytes, return their precondition error, leave the SwapState as it was and
\* make no external call
C4_PreconditionErrors ==
    /\ (dLast.op = "SignTransaction" /\ Unprepared(dLast.before)) =>
          /\ dLast.err = "no transaction prepared for signing"
          /\ dSwap = dLast.before
          /\ dLast.calls = {}
    /\ (dLast.op = "SubmitTransaction" /\ Unsigned(dLast.before)) =>
          /\ dLast.err = "no signed transaction available"
          /\ dSwap = dLast.before
          /\ dLast.calls = {}

\* C4 witness: SubmitTransaction was called on a prepared, unsigned SwapState
C4_Witness ==
    /\ dLast.op = "SubmitTransaction"
    /\ dLast.before.TxToSign.set
    /\ dLast.before.TxToSign.RawTx = <<>>

\* C21: PrepareTransaction with a chain kind other than ethereum and solana
\* returns the unsupported-chain error, calls neither the backend nor a
\* chain node, and leaves the SwapState, its prepared transaction included,
\* as it was
C21_UnsupportedChainRejected ==
    (dLast.op = "PrepareTransaction" /\ dLast.arg \notin {"ethereum", "solana"}) =>
        /\ dLast.err = "unsupported chain"
        /\ dLast.calls = {}
        /\ dSwap = dLast.before

\* C21 witness: PrepareTransaction was called with a chain kind that differs
\* from a supported one by its case only, on a SwapState without prepared
\* transaction, which is still without
C21_Witness ==
    /\ dLast.op = "PrepareTransaction"
    /\ dLast.arg = "Ethereum"
    /\ Unprepared(dLast.before)
    /\ Unprepared(dSwap)

KeyNotInitialized(chain) ==
    IF chain = "ethereum" THEN "ethereum private key not initialized"
    ELSE "solana private key not initialized"

\* C22: while the keys are not initialized, SignTransaction on a prepared
\* transaction returns the key-not-initialized error of its chain and leaves
\* the raw bytes empty, and SubmitTransaction on it is rejected for want of
\* a signed transaction without a call to a chain node
C22_SignWithoutKeysRejected ==
    (~chainKeys.set /\ dLast.before.TxToSign.set) =>
        /\ dLast.op = "SignTransaction" =>
              /\ dLast.err = KeyNotInitialized(dLast.before.TxToSign.Chain)
              /\ dSwap.TxToSign.RawTx = <<>>
              /\ dLast.calls = {}
        /\ dLast.op = "SubmitTransaction" =>
              /\ dLast.err = "no signed transaction available"
              /\ dSwap.TxToSign.RawTx = <<>>
              /\ dLast.calls = {}

\* C22 witness: without keys, SubmitTransaction was called on a prepared
\* Ethereum transaction, after a SignTransaction since the raw bytes could
\* only be empty
C22_Witness ==
    /\ ~chainKeys.set
    /\ dLast.op = "SubmitTransaction"
    /\ dLast.before.TxToSign.set
    /\ dLast.before.TxToSign.Chain = "ethereum"

\* C24: the value of a signed Ethereum transaction is the decimal amount of
\* the prepared transaction times 10^18 (the amount has six fractional
\* digits, the product is an integer)
C24_ValueIsAmountTimes10To18 ==
    (dSwap.TxToSign.set /\ dSwap.TxToSign.Chain = "ethereum"
        /\ dSwap.TxToSign.RawTx # <<>>) =>
        dSwap.TxToSign.RawTx[5] = TimesPow10(BitsOf(dSwap.TxToSign.Amount), 12)

\* C24, the instance: amount 1.5 is signed as value 1500000000000000000
C24_OneAndAHalf ==
    (dSwap.TxToSign.set /\ dSwap.TxToSign.Chain = "ethereum"
        /\ dSwap.TxToSign.RawTx # <<>> /\ dSwap.TxToSign.Amount = 1500000) =>
        dSwap.TxToSign.RawTx[5] = TimesPow10(BitsOf(15), 17)

\* the registry keyed by chain name
ChainNameRegistry == <<Pool("ethereum", "0xPool"), Pool("solana", "SoPool")>>

\* C28: PrepareTransaction for the chain of the swap's destination token,
\* ETH or SOL, while the backend holds the registry keyed by chain name,
\* does not fail to resolve the source pool address, and the transaction it
\* prepares has the pool address of the entry of that chain as its source.
C28_SourceIsPoolOfChain ==
    (/\ dLast.op = "PrepareTransaction"
     /\ dLast.arg \in {"ethereum", "solana"}
     /\ dLast.arg = determineChain(dLast.before.ToToken)
     /\ dLast.reg.kind = "data"
     /\ dLast.reg.pools = ChainNameRegistry) =>
        /\ dLast.err # "failed to get source pool address"
        /\ dLast.err = "" =>
              \E i \in 1..Len(ChainNameRegistry) :
                  /\ ChainNameRegistry[i].ChainName = dLast.arg
                  /\ dSwap.TxToSign.FromAddress = ChainNameRegistry[i].PoolAddress

TransferEvents ==
    <<"nft_transfer_initiated", "nft_transfer_pending", "nft_transfer_completed">>

Completed(t) ==
    \E i \in 1..Len(trEvents[t]) : trEvents[t][i] = "nft_transfer_completed"

TransferFailed(t) ==
    trRet[t].panic \/ (trRet[t].returned /\ trRet[t].err # "")

Min(a, b) == IF a < b THEN a ELSE b

\* C6: the events a transfer request hands to the hub are a prefix of
\* initiated, pending, completed (that order, each at most once); completed
\* is handed over only when the transfer mutation has succeeded, and a
\* request that failed at any step has handed over no completed event.
C6_TransferEventsInOrder ==
    \A t \in Transfers :
        /\ Len(trEvents[t]) <= Len(TransferEvents)
        /\ trEvents[t] = SubSeq(TransferEvents, 1, Len(trEvents[t]))
        /\ Completed(t) => trRecorded[t]
        /\ TransferFailed(t) => ~Completed(t)

\* two requests: one has handed over all three events and returned, the
\* other has failed in the transfer mutation after initiated and pending
C6_Witness ==
    /\ trEvents["t2"] = TransferEvents
    /\ trRet["t2"].returned /\ trRet["t2"].err = ""
    /\ TransferFailed("t1")
    /\ Len(trEvents["t1"]) = 2
    /\ Len(trCalls["t1"]) = 3

\* C7: the value executeSale is paid is min(requestedAmount, listedPrice) in
\* wei, whatever the requested amount and the listed price.
C7_SalePaysMinimum ==
    \A t \in Transfers :
        trSale[t].sent =>
            trSale[t].value =
                ToWei(Min(parseFloat64(trParams[t].Amount), parseFloat64(trNft[t].Price)))

FailedAfterSale(t) ==
    /\ trSale[t].sent
    /\ trRet[t].returned
    /\ trRet[t].err \in {"error executing transfer", "error parsing transfer response",
                          "transfer error"}

StepsOf(t, step) == {i \in 1..Len(trLog[t]) : trLog[t][i].step = step}

\* the backend answered the metadata query of t with the metadata
Fetched(t) == \E i \in StepsOf(t, "details") : trLog[t][i].answer = "data"

\* C26: a transfer request has called the sale only if its destination
\* token is ETH and its metadata fetch succeeded, and once past that point
\* it has called it if so; the sale comes after the metadata fetch and
\* before the transfer mutation; and a request to ETH has sent the transfer
\* mutation only after its sale succeeded.
C26_SaleIffEthAndFetched ==
    \A t \in Transfers :
        /\ StepsOf(t, "sale") # {} => (trParams[t].ToToken = "ETH" /\ Fetched(t))
        /\ (trParams[t].ToToken = "ETH" /\ Fetched(t) /\ trPc[t] # "sale")
                => StepsOf(t, "sale") # {}
        /\ \A i \in StepsOf(t, "sale") :
                /\ \E j \in StepsOf(t, "details") : j < i
                /\ \A j \in StepsOf(t, "transfer") : i < j
        /\ (StepsOf(t, "transfer") # {} /\ trParams[t].ToToken = "ETH")
                => \E i \in StepsOf(t, "sale") : trLog[t][i].err = ""

\* C26 with the success of the fetch read as GetNFTDetails returning no
\* error: this holds
SaleIffEthAndNoDetailsError ==
    \A t \in Transfers :
        LET noError == \E i \in StepsOf(t, "details") : trLog[t][i].err = "" IN
        /\ StepsOf(t, "sale") # {} => (trParams[t].ToToken = "ETH" /\ noError)
        /\ (trParams[t].ToToken = "ETH" /\ noError /\ trPc[t] # "sale")
                => StepsOf(t, "sale") # {}
        /\ \A i \in StepsOf(t, "sale") :
                /\ \E j \in StepsOf(t, "details") : j < i
                /\ \A j \in StepsOf(t, "transfer") : i < j
        /\ (StepsOf(t, "transfer") # {} /\ trParams[t].ToToken = "ETH")
                => \E i \in StepsOf(t, "sale") : trLog[t][i].err = ""

\* C27: a request whose metadata query met a transport error or was
\* answered with an error list has returned an error, and has neither
\* called the sale nor sent the transfer mutation.
C27_DetailsFailureAborts ==
    \A t \in Transfers :
        (\E i \in StepsOf(t, "details") : trLog[t][i].answer \in {"transport", "errors"}) =>
            /\ trRet[t].returned /\ trRet[t].err # ""
            /\ StepsOf(t, "sale") = {}
            /\ StepsOf(t, "transfer") = {}

\* C29: no transfer request has crashed in the sale: one that called it
\* without initialized keys has returned an error.
C29_KeyErrorInsteadOfCrash ==
    \A t \in Transfers :
        /\ ~trRet[t].panic
        /\ (\E i \in StepsOf(t, "sale") : trLog[t][i].err = "panic") => trRet[t].returned

(***************************************************************************)
(* Properties of the notification hub                                      *)
(***************************************************************************)
Count(seq, m) == Cardinality({i \in 1..Len(seq) : seq[i] = m})

\* the connections the range of the current broadcast has dealt with
Visited == hubSnap \ hubTodo

BroadcastFinished == hubPc = "iter" /\ hubTodo = {} /\ hubCur = ""

C10_StalledWriteBlocksNothing ==
    \A c \in Conns :
        (hubPc = "iter" /\ c \in hubTodo /\ conn[c] = "open" /\ ~stalled[c])
            => ENABLED handleBroadcastsWrite(c)

\* C11: the registry changes only in steps taken while handleBroadcasts
\* does not hold the lock in read mode, that is, in steps that take it in
\* write mode themselves.
C11_RegistryChangesExclusive ==
    [][clients' # clients => clientsLock = "free"]_vars

Connected == WSMessage("connected", "Successfully connected to WebSocket", "", "")

\* C12: whatever a subscriber has been written so far begins with the
\* connected message.
C12_ConnectedFirst ==
    \A c \in Conns : inbox[c] # <<>> => inbox[c][1] = Connected

IsReply(m) == m.type \in {"pong", "error"}

\* the replies written to c, in order
RepliesTo(c) == SelectSeq(inbox[c], IsReply)

Pong == WSMessage("pong", "pong", "", "")

UnknownMessageType == WSMessage("error", "", "Unknown message type", "")

FromProducer(m) ==
    /\ m.req \in Transfers
    /\ \E i \in 1..Len(trEvents[m.req]) : trEvents[m.req][i] = m.type

\* C15: everything written to a subscriber is its connected message, a
\* reply to a message of its own, or an event a transfer request handed to
\* the hub; the hub never holds anything but such an event; and the step
\* that handles a subscriber's message writes to no other subscriber and
\* leaves the hub as it is.
C15_NoRelay ==
    /\ [](/\ \A c \in Conns : \A i \in 1..Len(inbox[c]) :
                \/ inbox[c][i] = Connected
                \/ IsReply(inbox[c][i]) /\ inbound[c] # <<>>
                \/ FromProducer(inbox[c][i])
          /\ hubMsg = NoMessage \/ FromProducer(hubMsg))
    /\ [][\A c \in Conns :
            inbound'[c] # inbound[c] =>
                /\ \A d \in Conns \ {c} : inbox'[d] = inbox[d]
                /\ loopVars' = loopVars]_vars

\* c2 has sent a message of the type of a lifecycle event before any
\* request completed; c3 is connected and has only its connected message
C15_Witness ==
    /\ inbound["c2"] = <<"nft_transfer_completed">>
    /\ \A t \in Transfers : ~Completed(t)
    /\ conn["c3"] = "open" /\ inbox["c3"] = <<Connected>>
    /\ hubPc = "iter"

\* written by handleBroadcasts, not by the connection's own goroutine
IsBroadcast(m) == m # Connected /\ ~IsReply(m)

\* the broadcast events written to c, in order
BroadcastsTo(c) == SelectSeq(inbox[c], IsBroadcast)

Lifecycle(m) ==
    /\ m.type \in {"nft_transfer_initiated", "nft_transfer_pending", "nft_transfer_completed"}
    /\ m.data = EventStatus(m.type)
    /\ m.error = ""

\* C16 as stated: every broadcast event a subscriber was written is one of
\* the three lifecycle events, without error text.
C16_OnlyLifecycleEvents ==
    \A c \in Conns : \A i \in 1..Len(BroadcastsTo(c)) : Lifecycle(BroadcastsTo(c)[i])

\* C16: every broadcast event a subscriber was written is one of the three
\* lifecycle events or the nft_listed event of a listing, and none has an
\* error text.
C16_LifecycleOrListedEvents ==
    \A c \in Conns : \A i \in 1..Len(BroadcastsTo(c)) :
        Lifecycle(BroadcastsTo(c)[i]) \/ BroadcastsTo(c)[i] = NftListed

\* c3 was written a lifecycle event and the nft_listed event, while the
\* transfer request has failed
C16_Witness ==
    /\ \E i \in 1..Len(inbox["c3"]) : inbox["c3"][i] = NftListed
    /\ \E i \in 1..Len(inbox["c3"]) : Lifecycle(inbox["c3"][i])
    /\ TransferFailed("t2")

\* C17: when the tenth attempt still has a null result, GetSolanaTransaction
\* returns an error and no response.
C17_NotFoundAfterRetries ==
    (/\ lkRet.returned
     /\ Len(lkAnswers) = MaxAttempts
     /\ lkAnswers[MaxAttempts] = "null")
        => lkRet.err # "" /\ lkRet.response = ""

\* C18: the loop makes at most 10 requests, none after an attempt that got
\* the transaction, and GetSolanaTransaction returns in the end whatever
\* the answers are.
C18_LookupBoundedAndTerminates ==
    /\ [](/\ Len(lkAnswers) <= MaxAttempts
          /\ \A i \in 1..(Len(lkAnswers) - 1) : lkAnswers[i] # "visible")
    /\ <>(lkRet.returned)

\* ten requests were made, transport errors and null results among them,
\* the last one got the transaction, and the call has returned it
C18_Witness ==
    /\ lkRet.returned /\ lkRet.err = "" /\ lkRet.response = "visible"
    /\ Len(lkAnswers) = MaxAttempts
    /\ \E i \in 1..Len(lkAnswers) : lkAnswers[i] = "transport"
    /\ \E i \in 1..Len(lkAnswers) : lkAnswers[i] = "null"

\* C19: a backend operation answered with a non-empty errors array returns
\* an error and no value.
C19_ErrorsArrayIsFatal ==
    (beLast.called /\ beLast.ans = "errors") => (beLast.err # "" /\ beLast.value = "")

\* the pools of the registry whose chainName is name
Matching(pools, name) == {i \in 1..Len(pools) : pools[i].ChainName = name}

\* C20: on a registry the backend returned, GetPool(name) fails with pool
\* not found exactly when no pool has chainName name (the empty registry
\* included), and otherwise returns the poolAddress of the pool with that
\* chainName, the first in the registry when there are two.
C20_GetPoolByChainName ==
    (poolLast.called /\ poolLast.ans.kind = "data") =>
        LET pools == poolLast.ans.pools
            hits == Matching(pools, poolLast.name)
        IN  IF hits = {}
            THEN poolLast.err = "pool not found for token" /\ poolLast.addr = ""
            ELSE /\ poolLast.err = ""
                 /\ \E i \in hits :
                        /\ poolLast.addr = pools[i].PoolAddress
                        /\ \A j \in hits : i <= j

\* GetPool("ethereum") on a registry of a solana and an ethereum pool
C20_Witness ==
    /\ poolLast.called
    /\ poolLast.name = "ethereum"
    /\ poolLast.ans.pools = <<Pool("solana", "SoPool"), Pool("ethereum", "0xPool")>>
    /\ poolLast.addr = "0xPool"

(***************************************************************************)
(* Properties of ListNftForSale and of the lookup loop                     *)
(***************************************************************************)
ListedEvents(msgs) == {i \in 1..Len(msgs) : msgs[i].type = "nft_listed"}

\* C23: once ListNftForSale has returned without error it has handed the hub
\* exactly one event, of type nft_listed with the tokenId, price and owner of
\* the request; once it has failed, in ListToken or in the mutation, it has
\* handed the hub none; and no subscriber is written more nft_listed events
\* than were handed to the hub.
C23_OneListedEventOnSuccess ==
    /\ (lsRet.returned /\ lsRet.err = "") =>
          lsEvents = <<WSMessage("nft_listed",
                                 ListedData(lsArgs.tokenId, lsArgs.price, lsArgs.owner),
                                 "", "l1")>>
    /\ ((lsRet.returned /\ lsRet.err # "") \/ lsRet.panic) => lsEvents = <<>>
    /\ \A c \in Conns :
          Cardinality(ListedEvents(inbox[c])) <= Cardinality(ListedEvents(lsEvents))

\* C23 witness: ListNftForSale has returned without error and the
\* subscriber c3 was written its nft_listed event
C23_Witness ==
    /\ lsRet.returned
    /\ lsRet.err = ""
    /\ Cardinality(ListedEvents(inbox["c3"])) = 1

\* C25: every lookup attempt that is followed by another one is followed by
\* a pause first.
C25_PauseBetweenAttempts ==
    \A i \in 1..(Len(lkAnswers) - 1) : lkPauses[i]

(***************************************************************************)
(* Properties of handlePostTxHash                                           *)
(***************************************************************************)
TransferStarted(t) == trPc[t] # "initiated" \/ trEvents[t] # <<>>

\* the request has failed before the transfer, or lacks a parameter of it
PostFailedEarly ==
    \/ \E i \in 1..Len(hxLog) :
          hxLog[i].step \in {"validate", "lookup", "extract", "quote"} /\ hxLog[i].err # ""
    \/ hxPc = "done" /\ (hxReq.toToken = "" \/ hxReq.destinationAddress = "")

\* C30: when the transfer workflow of a request has been started, the
\* request had toToken and destinationAddress and has run, in this order
\* and each without error, the parameter checks, the lookup, the extraction
\* of the amount and the quote, and then called ExecuteTransferMutation;
\* when one of them failed or a parameter is missing, no transfer workflow
\* was started and the hub was handed no event.
C30_TransferOnlyAfterQuote ==
    /\ TransferStarted(PostTransfer) =>
          /\ Len(hxLog) >= 5
          /\ [i \in 1..5 |-> hxLog[i].step]
                = <<"validate", "lookup", "extract", "quote", "transfer">>
          /\ \A i \in 1..4 : hxLog[i].err = ""
          /\ hxReq.toToken # "" /\ hxReq.destinationAddress # ""
    /\ PostFailedEarly =>
          /\ \A t \in Transfers : ~TransferStarted(t)
          /\ hubMsg = NoMessage
          /\ hubPc = "recv"

\* C30 witness: a request on solana whose lookup, extraction and quote
\* succeeded has run its transfer workflow to the end and answered 200
C30_Witness ==
    /\ hxReq.chain = "solana"
    /\ hxPc = "done"
    /\ hxStatus = 200
    /\ trEvents[PostTransfer] = TransferEvents

\* C31: a request that is posted a second time with the txHash of a request
\* whose transfer workflow has sent the transfer mutation executes neither
\* a sale nor a transfer mutation.
C31_OneWorkflowPerTxHash ==
    (/\ hxDone # <<>>
     /\ hxReq.txHash = hxDone[1].txHash
     /\ StepsOf("t1", "transfer") # {}) =>
        /\ StepsOf("t2", "sale") = {}
        /\ StepsOf("t2", "transfer") = {}

\* C32: no connection has handleBroadcasts and its own goroutine inside a
\* WriteJSON at the same time.
C32_OneWriterPerConnection ==
    \A c \in Conns : ~(HubWriting(c) /\ HandlerWriting(c))

\* the contexts that hold the registry lock, and so read or change the
\* registry: handleBroadcasts during the range, a HandleWebSocket goroutine
\* between Lock and Unlock
RegistryUsers ==
    (IF hubPc = "iter" THEN {"hub"} ELSE {})
        \cup {c \in Conns : handler[c] \in {"registering", "unregistering"}}

\* C33: at most one context is inside the registry at a time, and the
\* registry changes only in a step of the one context that is inside it.
C33_RegistryAccessExclusive ==
    /\ [](Cardinality(RegistryUsers) <= 1)
    /\ [][clients' # clients =>
            \/ RegistryUsers = {"hub"} /\ hubTodo' # hubTodo
            \/ \E c \in Conns : RegistryUsers = {c} /\ handler'[c] # handler[c]]_vars

\* handleBroadcasts has deleted c2 during the range while the goroutine of
\* c2 is about to unregister it and c3 has not joined
C33_Witness ==
    /\ hubPc = "iter"
    /\ "c2" \in hubFailed
    /\ handler["c2"] = "reading"
    /\ handler["c3"] \in {"none", "exited"}

\* the goroutine of c is between its registration and its return
HandlerRunning(c) == handler[c] \notin {"none", "exited"}

\* C34: every registered connection has a running goroutine; a connection
\* whose goroutine has returned is not in the registry and not in a range
\* of handleBroadcasts, stays so, and is written nothing more; and the
\* unregistration of a connection that handleBroadcasts has deleted already
\* leaves the registry as it is.
C34_RegistryHoldsRunningHandlers ==
    /\ [](\A c \in clients : HandlerRunning(c))
    /\ [](\A c \in Conns :
            handler[c] = "exited" => c \notin clients /\ c \notin hubTodo /\ hubCur # c)
    /\ [][\A c \in Conns :
            /\ handler[c] = "exited" =>
                  handler'[c] = "exited" /\ c \notin clients' /\ inbox'[c] = inbox[c]
            /\ (handler'[c] = "exited" /\ handler[c] # "exited" /\ c \notin clients) =>
                  clients' = clients]_vars

\* handleBroadcasts deleted c2, the goroutine of c2 unregistered it once
\* more and returned, and a later event is being broadcast to c3 alone
C34_Witness ==
    /\ handler["c2"] = "exited"
    /\ "c2" \in pruned
    /\ hubPc = "iter"
    /\ hubSnap = {"c3"}
    /\ Len(hubLog) > 1

\* a is b with some of its elements left out
RECURSIVE IsSubsequence(_, _)
IsSubsequence(a, b) ==
    IF a = <<>> THEN TRUE
    ELSE IF b = <<>> THEN FALSE
    ELSE IF Head(a) = Head(b) THEN IsSubsequence(Tail(a), Tail(b))
    ELSE IsSubsequence(a, Tail(b))

\* the place of a lifecycle event in its request
LifecycleRank(m) ==
    CASE m.type = "nft_transfer_initiated" -> 1
      [] m.type = "nft_transfer_pending" -> 2
      [] m.type = "nft_transfer_completed" -> 3
      [] OTHER -> 0

\* C35: the broadcast events a subscriber was written are, in their order,
\* events the hub received, in the order it received them and none more
\* often than it was received; and of two events of one transfer request
\* the one written first is the earlier of initiated, pending, completed.
C35_EventsInHubOrder ==
    \A c \in Conns :
        LET written == BroadcastsTo(c) IN
        /\ IsSubsequence(written, hubLog)
        /\ \A i, j \in 1..Len(written) :
              (i < j /\ written[i].req = written[j].req) =>
                  LifecycleRank(written[i]) < LifecycleRank(written[j])

\* c3 stayed connected while two requests broadcast in turns, and was
\* written the six events of both
C35_Witness ==
    LET written == BroadcastsTo("c3") IN
    /\ conn["c3"] = "open"
    /\ Len(written) = 6
    /\ <<written[1].req, written[2].req, written[3].req>> = <<"t1", "t2", "t1">>
    /\ written[6].type = "nft_transfer_completed"

\* the steps of ExecuteTransferMutation that send on the broadcast channel
SendSteps == {"initiated", "pending", "completed"}

\* the event that request t sends at the given step
EventOf(t, step) ==
    WSMessage("nft_transfer_" \o step, EventStatus("nft_transfer_" \o step), "", t)

\* C36: a request that is at a send on the broadcast channel gets past it
\* and the hub has received its event; a range of handleBroadcasts comes
\* to its end; a goroutine that waits for the registry lock, to register
\* or to unregister its connection, gets it.
C36_HubNeverDeadlocks ==
    /\ \A t \in Producers : \A step \in SendSteps :
          (trPc[t] = step) ~>
              (trPc[t] # step /\ \E i \in 1..Len(hubLog) : hubLog[i] = EventOf(t, step))
    /\ (hubPc = "iter") ~> (hubPc = "recv")
    /\ \A c \in Conns :
          /\ (handler[c] = "upgraded") ~> (handler[c] = "registering")
          /\ (handler[c] = "reading" /\ conn[c] = "closed") ~> (handler[c] = "unregistering")

\* a request is at its second send while handleBroadcasts is in a range
\* with no subscriber, c3 waits for the lock to register and c2 has
\* come and gone
C36_Witness ==
    /\ hubPc = "iter"
    /\ hubSnap = {}
    /\ trPc["t2"] = "pending"
    /\ handler["c3"] = "upgraded"
    /\ handler["c2"] = "exited"

\* C37: two requests that are both prepared and signed for Ethereum and
\* about to be submitted carry different nonces.
C37_ConcurrentSwapsDistinctNonces ==
    \A r, q \in Requests :
        (/\ r # q
         /\ swapPc[r] = "submit" /\ swapPc[q] = "submit"
         /\ swapSt[r].TxToSign.Chain = "ethereum" /\ swapSt[q].TxToSign.Chain = "ethereum"
         /\ swapSt[r].TxToSign.RawTx # <<>> /\ swapSt[q].TxToSign.RawTx # <<>>)
            => swapSt[r].TxToSign.Nonce # swapSt[q].TxToSign.Nonce

\* C38: a request that has returned after its sale transaction was mined
\* has returned the hash of that transaction.
C38_SaleHashReturned ==
    \A t \in Transfers :
        (trRet[t].returned /\ trHash[t] # "") => trRet[t].hash = trHash[t]

\* C39: a request whose destination token is neither ETH nor SOL has not
\* made the backend execute the swap mutation.
C39_NoMutationForUnsupportedToken ==
    \A r \in Requests :
        determineChain(swapReq[r].toToken) = "unknown" => "backend.swap" \notin swapCalls[r]

====
